---- MODULE Spec2Model ----
(***************************************************************************)
(* Model of the automata engine: Automaton (base), State, Transition, DFA, *)
(* NFA, PDA, TuringMachine.                                                *)
(*                                                                         *)
(* An automaton object is a record; the operations of the classes are      *)
(* operators from records to records, and the actions apply them to the    *)
(* live object `automaton`.  JavaScript values are encoded as follows:     *)
(*   null / undefined string   -> Null ("null")                            *)
(*   undefined id, unresolved state reference -> NoId (-1)                 *)
(*   isAccepted (null | true | false) -> "null" | "true" | "false"         *)
(*   a reference to a State object -> the id of the state, plus the kind   *)
(*   of the reference for initialState (see RefNull .. RefForeign)         *)
(***************************************************************************)
EXTENDS Integers, Sequences, FiniteSets, TLC

VARIABLES
    automaton,          \* the live Automaton object
    stateNextId,        \* State.nextId (static)
    transitionNextId,   \* Transition.nextId (static)
    lastOp,             \* name and return value of the last call
    calls,              \* number of calls the editor has made
    pc,                 \* position of the caller inside run()
    steps,              \* local `steps` of run()
    maxSteps,           \* parameter `maxSteps` of run()
    prior,              \* verdict of the NFA a converted DFA came from
    scenario,           \* which machine the session is about
    simulator           \* the Simulator object and the intervals of the window

vars == <<automaton, stateNextId, transitionNextId, lastOp, calls, pc, steps, maxSteps, prior, scenario,
          simulator>>

-----------------------------------------------------------------------------
(* Encodings *)

Null == "null"
NoId == 0 - 1
EPS == "ε"
BLANK == "□"

Falsy(s) == s = Null \/ s = ""

\* JS `a || b` on strings
OrElse(a, b) == IF Falsy(a) THEN b ELSE a

\* JS `a || b` on numbers
NumOrElse(a, b) == IF a = 0 THEN b ELSE a

Max(a, b) == IF a >= b THEN a ELSE b

RECURSIVE SeqMax(_)
SeqMax(s) == IF Len(s) = 1 THEN s[1] ELSE Max(s[1], SeqMax(Tail(s)))

Range(s) == {s[i] : i \in DOMAIN s}

\* Set.prototype.add on an insertion-ordered set
SetAdd(s, e) == IF e \in Range(s) THEN s ELSE Append(s, e)

RECURSIVE SetAddAll(_, _)
SetAddAll(s, es) == IF es = <<>> THEN s ELSE SetAddAll(SetAdd(s, Head(es)), Tail(es))

-----------------------------------------------------------------------------
(* State *)

DefaultCoord == 100

\* new State(options); an absent option is the falsy value of its type,
\* an absent id is NoId
State(options, nextId) ==
    LET id == IF options.id # NoId THEN options.id ELSE nextId IN
    [id        |-> id,
     name      |-> IF options.name = "" THEN "q" \o ToString(id) ELSE options.name,
     x         |-> NumOrElse(options.x, DefaultCoord),
     y         |-> NumOrElse(options.y, DefaultCoord),
     isInitial |-> options.isInitial,
     isFinal   |-> options.isFinal,
     isHalt    |-> options.isHalt,
     active    |-> FALSE]

\* State.nextId after new State(options)
StateCounterAfterNew(options, nextId) == IF options.id # NoId THEN nextId ELSE nextId + 1

StateOptions(x, y, isInitial, isFinal, isHalt) ==
    [id |-> NoId, name |-> "", x |-> x, y |-> y,
     isInitial |-> isInitial, isFinal |-> isFinal, isHalt |-> isHalt]

StateToJSON(s) ==
    [id |-> s.id, name |-> s.name, x |-> s.x, y |-> s.y,
     isInitial |-> s.isInitial, isFinal |-> s.isFinal, isHalt |-> s.isHalt]

StateFromJSON(json) == State(json, 0)

\* State.moveTo
MoveTo(s, x, y) == [s EXCEPT !.x = x, !.y = y]

-----------------------------------------------------------------------------
(* Transition *)

Transition(options, nextId) ==
    [id          |-> IF options.id # NoId THEN options.id ELSE nextId,
     fromState   |-> options.fromState,
     toState     |-> options.toState,
     symbols     |-> options.symbols,
     stackRead   |-> OrElse(options.stackRead, Null),
     stackWrite  |-> OrElse(options.stackWrite, Null),
     readSymbol  |-> OrElse(options.readSymbol, Null),
     writeSymbol |-> OrElse(options.writeSymbol, Null),
     direction   |-> OrElse(options.direction, Null),
     highlighted |-> FALSE]

TransitionCounterAfterNew(options, nextId) == IF options.id # NoId THEN nextId ELSE nextId + 1

TransitionOptions(from, to, symbols, stackRead, stackWrite, readSymbol, writeSymbol, direction) ==
    [id |-> NoId, fromState |-> from, toState |-> to, symbols |-> symbols,
     stackRead |-> stackRead, stackWrite |-> stackWrite,
     readSymbol |-> readSymbol, writeSymbol |-> writeSymbol, direction |-> direction]

\* a finite-automaton transition
FAOptions(from, to, symbols) == TransitionOptions(from, to, symbols, Null, Null, Null, Null, Null)

Includes(symbols, s) == s \in Range(symbols)

\* Transition.accepts
TransitionAccepts(t, symbol) ==
    IF Includes(t.symbols, EPS) \/ Includes(t.symbols, "")
    THEN symbol = "" \/ symbol = EPS \/ symbol = Null
    ELSE Includes(t.symbols, symbol)

\* Transition.isEpsilon
IsEpsilon(t) ==
    \/ Len(t.symbols) = 0
    \/ Includes(t.symbols, EPS)
    \/ (Len(t.symbols) = 1 /\ t.symbols[1] = "")

GetFromStateId(t) == t.fromState

GetToStateId(t) == t.toState

TransitionToJSON(t) ==
    [id |-> t.id, fromState |-> GetFromStateId(t), toState |-> GetToStateId(t),
     symbols |-> t.symbols, stackRead |-> t.stackRead, stackWrite |-> t.stackWrite,
     readSymbol |-> t.readSymbol, writeSymbol |-> t.writeSymbol, direction |-> t.direction]

\* states.find(s => s.id === id), as the id of the state found (NoId: undefined)
FindStateId(states, id) == IF \E i \in DOMAIN states : states[i].id = id THEN id ELSE NoId

TransitionFromJSON(json, states) ==
    Transition([json EXCEPT !.fromState = FindStateId(states, json.fromState),
                            !.toState = FindStateId(states, json.toState)], 0)

-----------------------------------------------------------------------------
(* Automaton: construction and queries *)

MaxHistory == 50

\* references held in this.initialState
RefNull == [kind |-> "null", id |-> NoId, isInitial |-> FALSE]

RefUndefined == [kind |-> "undefined", id |-> NoId, isInitial |-> FALSE]

\* a State object that is an element of this.states
RefState(id) == [kind |-> "state", id |-> id, isInitial |-> FALSE]

\* a State object that is not an element of this.states; it carries its own flag
RefForeign(id, isInitial) == [kind |-> "foreign", id |-> id, isInitial |-> isInitial]

Truthy(ref) == ref.kind \in {"state", "foreign"}

\* constructors of Automaton, DFA, NFA, PDA and TuringMachine; the fields of
\* the subclasses are carried by every object
NewAutomaton(type) ==
    [type |-> type,
     states |-> <<>>,
     transitions |-> <<>>,
     alphabet |-> <<>>,
     initialState |-> RefNull,
     currentStates |-> {},
     input |-> <<>>,
     inputIndex |-> 0,
     trace |-> <<>>,
     isRunning |-> FALSE,
     isAccepted |-> "null",
     history |-> <<>>,
     historyIndex |-> NoId,
     stack |-> <<>>,
     stackAlphabet |-> <<"Z">>,
     initialStackSymbol |-> "Z",
     acceptByFinalState |-> TRUE,
     acceptByEmptyStack |-> FALSE,
     configurations |-> <<>>,
     tape |-> <<>>,
     headPosition |-> 0,
     blankSymbol |-> BLANK,
     tapeAlphabet |-> <<BLANK>>,
     visibleTapeStart |-> 0 - 10,
     visibleTapeEnd |-> 10]

StateIds(a) == {a.states[i].id : i \in DOMAIN a.states}

HasState(a, id) == id \in StateIds(a)

\* Automaton.getState, for an id that is present
GetState(a, id) == a.states[CHOOSE i \in DOMAIN a.states :
                              /\ a.states[i].id = id
                              /\ \A j \in DOMAIN a.states : a.states[j].id = id => i <= j]

GetTransitionsFrom(a, stateId) ==
    SelectSeq(a.transitions, LAMBDA t : GetFromStateId(t) = stateId)

GetFinalStates(a) == SelectSeq(a.states, LAMBDA s : s.isFinal)

\* s.isInitial = v for the State object a reference denotes
SetInitialFlag(states, ref, v) ==
    IF ref.kind = "state"
    THEN [i \in DOMAIN states |->
            IF states[i].id = ref.id THEN [states[i] EXCEPT !.isInitial = v] ELSE states[i]]
    ELSE states

-----------------------------------------------------------------------------
(* Automaton: simulation reset and serialization *)

ResetSimulation(a) ==
    [a EXCEPT
       !.currentStates = IF Truthy(a.initialState) THEN {a.initialState.id} ELSE {},
       !.inputIndex = 0,
       !.trace = <<>>,
       !.isRunning = FALSE,
       !.isAccepted = "null",
       !.states = [i \in DOMAIN a.states |-> [a.states[i] EXCEPT !.active = FALSE]],
       !.transitions = [i \in DOMAIN a.transitions |->
                           [a.transitions[i] EXCEPT !.highlighted = FALSE]]]

\* Automaton.toJSON, with the fields PDA.toJSON and TuringMachine.toJSON add
ToJSON(a) ==
    [type |-> a.type,
     states |-> [i \in DOMAIN a.states |-> StateToJSON(a.states[i])],
     transitions |-> [i \in DOMAIN a.transitions |-> TransitionToJSON(a.transitions[i])],
     alphabet |-> a.alphabet,
     initialStateId |-> IF Truthy(a.initialState) THEN a.initialState.id ELSE NoId,
     initialStackSymbol |-> a.initialStackSymbol,
     acceptByFinalState |-> a.acceptByFinalState,
     acceptByEmptyStack |-> a.acceptByEmptyStack,
     stackAlphabet |-> a.stackAlphabet,
     blankSymbol |-> a.blankSymbol,
     tapeAlphabet |-> a.tapeAlphabet]

\* this.initialState as loadFromJSON resolves it
LoadedInitialState(states, initialStateId) ==
    IF initialStateId # NoId
    THEN IF \E i \in DOMAIN states : states[i].id = initialStateId
         THEN RefState(initialStateId) ELSE RefUndefined
    ELSE IF \E i \in DOMAIN states : states[i].isInitial
         THEN RefState(states[CHOOSE i \in DOMAIN states :
                                 /\ states[i].isInitial
                                 /\ \A j \in DOMAIN states : states[j].isInitial => i <= j].id)
         ELSE RefNull

\* loadFromJSON that records the loaded document in the history
BaseLoadFromJSONRecording(a, json) ==
    LET sts == [i \in DOMAIN json.states |-> StateFromJSON(json.states[i])]
        trs == [i \in DOMAIN json.transitions |-> TransitionFromJSON(json.transitions[i], sts)]
    IN ResetSimulation(
         [a EXCEPT !.type = OrElse(json.type, "dfa"),
                   !.states = sts,
                   !.transitions = trs,
                   !.alphabet = json.alphabet,
                   !.initialState = LoadedInitialState(sts, json.initialStateId),
                   !.history = Append(a.history, json)])

\* Automaton.loadFromJSON
BaseLoadFromJSON(a, json) ==
    LET sts == [i \in DOMAIN json.states |-> StateFromJSON(json.states[i])]
        trs == [i \in DOMAIN json.transitions |-> TransitionFromJSON(json.transitions[i], sts)]
    IN ResetSimulation(
         [a EXCEPT !.type = OrElse(json.type, "dfa"),
                   !.states = sts,
                   !.transitions = trs,
                   !.alphabet = json.alphabet,
                   !.initialState = LoadedInitialState(sts, json.initialStateId)])

\* PDA.loadFromJSON and TuringMachine.loadFromJSON, by the class of the object
LoadFromJSON(a, json) ==
    LET b == BaseLoadFromJSON(a, json) IN
    IF a.type = "pda"
    THEN [b EXCEPT !.initialStackSymbol = OrElse(json.initialStackSymbol, "Z"),
                   !.acceptByFinalState = json.acceptByFinalState,
                   !.acceptByEmptyStack = json.acceptByEmptyStack,
                   !.stackAlphabet = json.stackAlphabet]
    ELSE IF a.type = "tm"
    THEN [b EXCEPT !.blankSymbol = OrElse(json.blankSymbol, BLANK),
                   !.tapeAlphabet = json.tapeAlphabet]
    ELSE b

\* State.nextId after a loadFromJSON that only resets the counter
StateCounterAfterLoadReset(json) == 0

\* State.nextId after loadFromJSON(json)
StateCounterAfterLoad(json) ==
    IF Len(json.states) > 0
    THEN SeqMax([i \in DOMAIN json.states |-> json.states[i].id]) + 1
    ELSE 0

\* Transition.nextId after loadFromJSON(json)
TransitionCounterAfterLoad(json) ==
    IF Len(json.transitions) > 0
    THEN SeqMax([i \in DOMAIN json.transitions |-> json.transitions[i].id]) + 1
    ELSE 0

-----------------------------------------------------------------------------
(* Automaton: history *)

\* saveToHistory without the limit on the size of the history
SaveToHistoryUnlimited(a) ==
    LET kept == IF a.historyIndex < Len(a.history) - 1
                THEN SubSeq(a.history, 1, a.historyIndex + 1)
                ELSE a.history
    IN [a EXCEPT !.history = Append(kept, ToJSON(a)), !.historyIndex = a.historyIndex + 1]

SaveToHistory(a) ==
    LET snapshot == ToJSON(a)
        kept == IF a.historyIndex < Len(a.history) - 1
                THEN SubSeq(a.history, 1, a.historyIndex + 1)
                ELSE a.history
        pushed == Append(kept, snapshot)
    IN IF Len(pushed) > MaxHistory
       THEN [a EXCEPT !.history = Tail(pushed)]
       ELSE [a EXCEPT !.history = pushed, !.historyIndex = a.historyIndex + 1]

CanUndo(a) == a.historyIndex > 0

Undo(a) ==
    IF CanUndo(a)
    THEN LoadFromJSON([a EXCEPT !.historyIndex = a.historyIndex - 1], a.history[a.historyIndex])
    ELSE a

CanRedo(a) == a.historyIndex < Len(a.history) - 1

Redo(a) ==
    IF CanRedo(a)
    THEN LoadFromJSON([a EXCEPT !.historyIndex = a.historyIndex + 1], a.history[a.historyIndex + 2])
    ELSE a

-----------------------------------------------------------------------------
(* Automaton: mutating operations *)

\* addState that leaves the flag of the old initial state as it is
AddStateKeepingInitial(a, state) ==
    LET st == IF Len(a.states) = 0 THEN [state EXCEPT !.isInitial = TRUE] ELSE state IN
    SaveToHistory(
      [a EXCEPT !.states = Append(a.states, st),
                !.initialState = IF st.isInitial THEN RefState(st.id) ELSE a.initialState])

\* addState(state), state a State object that is not in the automaton
AddState(a, state) ==
    LET first == Len(a.states) = 0
        st == IF first THEN [state EXCEPT !.isInitial = TRUE] ELSE state
        \* this.initialState !== state holds unless the first branch just set it
        clearOld == st.isInitial /\ ~first /\ Truthy(a.initialState)
        olds == IF clearOld THEN SetInitialFlag(a.states, a.initialState, FALSE) ELSE a.states
    IN SaveToHistory(
         [a EXCEPT !.states = Append(olds, st),
                   !.initialState = IF st.isInitial THEN RefState(st.id) ELSE a.initialState])

\* removeState that leaves the transitions as they are
RemoveStateKeepingTransitions(a, stateId) ==
    SaveToHistory([a EXCEPT !.states = SelectSeq(a.states, LAMBDA s : s.id # stateId)])

\* removeState(state), by the id of the argument
RemoveState(a, stateId) ==
    LET trs == SelectSeq(a.transitions,
                   LAMBDA t : GetFromStateId(t) # stateId /\ GetToStateId(t) # stateId)
        sts == SelectSeq(a.states, LAMBDA s : s.id # stateId)
        wasInitial == Truthy(a.initialState) /\ a.initialState.id = stateId
        promoted == IF wasInitial /\ Len(sts) > 0
                    THEN [i \in DOMAIN sts |->
                            IF i = 1 THEN [sts[i] EXCEPT !.isInitial = TRUE] ELSE sts[i]]
                    ELSE sts
    IN SaveToHistory(
         [a EXCEPT !.transitions = trs,
                   !.states = promoted,
                   !.initialState = IF wasInitial
                                    THEN IF Len(sts) > 0 THEN RefState(sts[1].id) ELSE RefNull
                                    ELSE a.initialState])

\* the symbols addTransition puts into the alphabet
AlphabetSymbols(symbols) == SelectSeq(symbols, LAMBDA s : ~Falsy(s) /\ s # EPS)

AddTransition(a, transition) ==
    SaveToHistory(
      [a EXCEPT !.alphabet = SetAddAll(a.alphabet, AlphabetSymbols(transition.symbols)),
                !.transitions = Append(a.transitions, transition)])

RemoveTransition(a, transitionId) ==
    SaveToHistory(
      [a EXCEPT !.transitions = SelectSeq(a.transitions, LAMBDA t : t.id # transitionId)])

\* setInitialState(state); arg.kind = "id": a state id (or a State object of
\* the automaton), arg.kind = "foreign": a State object that is not in the
\* automaton
SetInitialState(a, arg) ==
    LET cleared == IF Truthy(a.initialState)
                   THEN SetInitialFlag(a.states, a.initialState, FALSE)
                   ELSE a.states
        oldRef == IF a.initialState.kind = "foreign"
                  THEN [a.initialState EXCEPT !.isInitial = FALSE]
                  ELSE a.initialState
        found == arg.kind = "foreign" \/ HasState(a, arg.id)
        newRef == IF arg.kind = "foreign" THEN RefForeign(arg.id, TRUE) ELSE RefState(arg.id)
    IN SaveToHistory(
         [a EXCEPT !.states = IF found THEN SetInitialFlag(cleared, newRef, TRUE) ELSE cleared,
                   !.initialState = IF found THEN newRef ELSE oldRef])

Clear(a) ==
    SaveToHistory(
      ResetSimulation(
        [a EXCEPT !.states = <<>>,
                  !.transitions = <<>>,
                  !.alphabet = <<>>,
                  !.initialState = RefNull]))

-----------------------------------------------------------------------------
(* The editor: one action per public operation of Automaton *)

MaxStates == 2
MaxTransitions == 1
MaxCalls == 5
MaxStateId == MaxStates + 1

Types == {"dfa", "nfa", "pda", "tm"}

\* the classes the editor session is run on
EditTypes == {"nfa", "pda"}

\* transition labels as Transition.parseLabel produces them for each type
Labels(type) ==
    IF type = "pda"
    THEN {TransitionOptions(NoId, NoId, <<"a">>, "Z", "AZ", Null, Null, Null),
          TransitionOptions(NoId, NoId, <<EPS>>, EPS, EPS, Null, Null, Null)}
    ELSE IF type = "tm"
    THEN {TransitionOptions(NoId, NoId, <<>>, Null, Null, "0", "1", "R"),
          TransitionOptions(NoId, NoId, <<>>, Null, Null, BLANK, BLANK, "S")}
    ELSE {FAOptions(NoId, NoId, <<"a">>), FAOptions(NoId, NoId, <<EPS>>)}

\* an id that no state (no transition) of the model ever has
UnknownId == MaxStateId + 1

\* what the last call was and what it returned; note tells why run() left its loop
Called(name, ret) == [name |-> name, ret |-> ret, note |-> "none"]

\* Simulator.constructor: no automatic run, and no interval set in the window
NoInterval == 0
\* initCalls, onStepComplete and onSimulationComplete count the calls of
\* Simulator.init and of the two callbacks
NewSimulator ==
    [isRunning |-> FALSE, isPaused |-> FALSE, stepInterval |-> NoInterval,
     intervals |-> {}, nextInterval |-> 1, inputField |-> <<>>,
     initCalls |-> 0, onStepComplete |-> 0, onSimulationComplete |-> 0]

runVars == <<pc, steps, maxSteps, prior, scenario, simulator>>

\* editor createState: new State({x, y, isInitial}) then addState
DoAddState ==
    /\ calls < MaxCalls
    /\ Len(automaton.states) < MaxStates
    /\ stateNextId < MaxStateId
    /\ \E isInitial \in BOOLEAN :
         LET opts == StateOptions(50, 50, isInitial, FALSE, FALSE) IN
         /\ automaton' = AddState(automaton, State(opts, stateNextId))
         /\ stateNextId' = StateCounterAfterNew(opts, stateNextId)
    /\ lastOp' = Called("addState", "none")
    /\ calls' = calls + 1
    /\ UNCHANGED <<transitionNextId, runVars>>

DoRemoveState ==
    /\ calls < MaxCalls
    /\ \E id \in StateIds(automaton) \cup {UnknownId} :
         automaton' = RemoveState(automaton, id)
    /\ lastOp' = Called("removeState", "none")
    /\ calls' = calls + 1
    /\ UNCHANGED <<stateNextId, transitionNextId, runVars>>

\* editor createTransition: new Transition({fromState, toState, ...parsed})
\* then addTransition, between two states of the automaton
DoAddTransition ==
    /\ calls < MaxCalls
    /\ Len(automaton.transitions) < MaxTransitions
    /\ \E from \in StateIds(automaton), to \in StateIds(automaton),
          label \in Labels(automaton.type) :
         LET opts == [label EXCEPT !.fromState = from, !.toState = to] IN
         /\ automaton' = AddTransition(automaton, Transition(opts, transitionNextId))
         /\ transitionNextId' = TransitionCounterAfterNew(opts, transitionNextId)
    /\ lastOp' = Called("addTransition", "none")
    /\ calls' = calls + 1
    /\ UNCHANGED <<stateNextId, runVars>>

DoRemoveTransition ==
    /\ calls < MaxCalls
    /\ \E id \in {automaton.transitions[i].id : i \in DOMAIN automaton.transitions}
                 \cup {UnknownId} :
         automaton' = RemoveTransition(automaton, id)
    /\ lastOp' = Called("removeTransition", "none")
    /\ calls' = calls + 1
    /\ UNCHANGED <<stateNextId, transitionNextId, runVars>>

\* setInitialState with a state of the automaton or with an unknown id
DoSetInitialState ==
    /\ calls < MaxCalls
    /\ \E id \in StateIds(automaton) \cup {UnknownId} :
         automaton' = SetInitialState(automaton, [kind |-> "id", id |-> id])
    /\ lastOp' = Called("setInitialState", "none")
    /\ calls' = calls + 1
    /\ UNCHANGED <<stateNextId, transitionNextId, runVars>>

\* setInitialState(new State()): a State object that was never added
DoSetInitialStateForeign ==
    /\ calls < MaxCalls
    /\ stateNextId < MaxStateId
    /\ automaton' = SetInitialState(automaton, [kind |-> "foreign", id |-> stateNextId])
    /\ stateNextId' = stateNextId + 1
    /\ lastOp' = Called("setInitialState", "none")
    /\ calls' = calls + 1
    /\ UNCHANGED <<transitionNextId, runVars>>

DoClear ==
    /\ calls < MaxCalls
    /\ automaton' = Clear(automaton)
    /\ stateNextId' = 0
    /\ transitionNextId' = 0
    /\ lastOp' = Called("clear", "none")
    /\ calls' = calls + 1
    /\ UNCHANGED runVars

DoUndo ==
    /\ calls < MaxCalls
    /\ automaton' = Undo(automaton)
    /\ stateNextId' = IF CanUndo(automaton)
                      THEN StateCounterAfterLoad(automaton.history[automaton.historyIndex])
                      ELSE stateNextId
    /\ transitionNextId' = IF CanUndo(automaton)
                           THEN TransitionCounterAfterLoad(automaton.history[automaton.historyIndex])
                           ELSE transitionNextId
    /\ lastOp' = Called("undo", IF CanUndo(automaton) THEN "true" ELSE "false")
    /\ calls' = calls + 1
    /\ UNCHANGED runVars

DoRedo ==
    /\ calls < MaxCalls
    /\ automaton' = Redo(automaton)
    /\ stateNextId' = IF CanRedo(automaton)
                      THEN StateCounterAfterLoad(automaton.history[automaton.historyIndex + 2])
                      ELSE stateNextId
    /\ transitionNextId' = IF CanRedo(automaton)
                           THEN TransitionCounterAfterLoad(automaton.history[automaton.historyIndex + 2])
                           ELSE transitionNextId
    /\ lastOp' = Called("redo", IF CanRedo(automaton) THEN "true" ELSE "false")
    /\ calls' = calls + 1
    /\ UNCHANGED runVars

\* loadFromJSON(json) with a document saved from this automaton earlier
\* (a snapshot) or just now (toJSON)
DoLoadFromJSON ==
    /\ calls < MaxCalls
    /\ \E json \in Range(automaton.history) \cup {ToJSON(automaton)} :
         /\ automaton' = LoadFromJSON(automaton, json)
         /\ stateNextId' = StateCounterAfterLoad(json)
         /\ transitionNextId' = TransitionCounterAfterLoad(json)
    /\ lastOp' = Called("loadFromJSON", "none")
    /\ calls' = calls + 1
    /\ UNCHANGED runVars

InitEdit ==
    /\ simulator = NewSimulator
    /\ automaton \in {NewAutomaton(type) : type \in EditTypes}
    /\ stateNextId = 0
    /\ transitionNextId = 0
    /\ lastOp = Called("new", "none")
    /\ calls = 0
    /\ pc = "idle"
    /\ steps = 0
    /\ maxSteps = 0
    /\ prior = "none"
    /\ scenario = "editor"


-----------------------------------------------------------------------------
(* Simulation: Automaton (base) and DFA *)

\* the i-th character of the input, i counted from 0 as in the code
CharAt(input, i) == input[i + 1]

SetActive(states, ids) ==
    [i \in DOMAIN states |-> [states[i] EXCEPT !.active = (states[i].id \in ids)]]

SetHighlighted(transitions, ids) ==
    [i \in DOMAIN transitions |->
        [transitions[i] EXCEPT !.highlighted = (transitions[i].id \in ids)]]

\* a trace record; the description text is kept as its kind
TraceEntry(step, states, symbol, kind) ==
    [step |-> step, states |-> states, symbol |-> symbol, kind |-> kind]

\* Automaton.initSimulation
BaseInitSimulation(a, input) ==
    LET r == ResetSimulation([a EXCEPT !.input = input]) IN
    IF Truthy(a.initialState)
    THEN [r EXCEPT !.currentStates = {a.initialState.id},
                   !.states = SetActive(r.states, {a.initialState.id}),
                   !.trace = Append(r.trace, TraceEntry(0, {a.initialState.id}, Null, "start"))]
    ELSE r

\* Automaton.checkAcceptance
BaseCheckAcceptance(a) ==
    LET finals == {f.id : f \in Range(GetFinalStates(a))} IN
    [a EXCEPT !.isAccepted = IF a.currentStates \cap finals # {} THEN "true" ELSE "false"]

\* the first element of a sequence satisfying Test: Array.prototype.find
FindFirst(s, Test(_)) == SelectSeq(s, Test)

\* DFA.step; ret is the value step returns
DFAStep(a) ==
    IF a.inputIndex >= Len(a.input) \/ a.currentStates = {}
    THEN [a |-> BaseCheckAcceptance([a EXCEPT !.isRunning = FALSE]), ret |-> FALSE]
    ELSE
      LET symbol == CharAt(a.input, a.inputIndex)
          currentState == CHOOSE id \in a.currentStates : TRUE
          valid == FindFirst(GetTransitionsFrom(a, currentState),
                             LAMBDA t : TransitionAccepts(t, symbol))
      IN IF valid # <<>>
         THEN LET nextState == GetToStateId(valid[1]) IN
              [a |-> [a EXCEPT
                        !.currentStates = {nextState},
                        !.states = SetActive(a.states, {nextState}),
                        !.transitions = SetHighlighted(a.transitions, {valid[1].id}),
                        !.trace = Append(a.trace,
                                     TraceEntry(a.inputIndex + 1, {nextState}, symbol, "read")),
                        !.inputIndex = a.inputIndex + 1],
               ret |-> TRUE]
         ELSE [a |-> [a EXCEPT
                        !.currentStates = {},
                        !.states = SetActive(a.states, {}),
                        !.transitions = SetHighlighted(a.transitions, {}),
                        !.trace = Append(a.trace,
                                     TraceEntry(a.inputIndex + 1, {}, symbol, "rejected")),
                        !.isAccepted = "false",
                        !.isRunning = FALSE],
               ret |-> FALSE]

-----------------------------------------------------------------------------
(* Simulation: NFA *)

\* the loop of NFA.epsilonClosure: closure is the set built so far (ids),
\* stack the worklist
RECURSIVE ClosureLoop(_, _, _)
ClosureLoop(a, closure, stack) ==
    IF stack = <<>> THEN closure
    ELSE
      LET current == stack[Len(stack)]
          rest == SubSeq(stack, 1, Len(stack) - 1)
          eps == SelectSeq(GetTransitionsFrom(a, current), IsEpsilon)
          targets == [i \in DOMAIN eps |-> GetToStateId(eps[i])]
          \* forEach over the epsilon transitions, adding unseen targets
          fresh == SelectSeq(targets,
                      LAMBDA id : HasState(a, id) /\ id \notin closure)
          news == SetAddAll(<<>>, fresh)
      IN IF ~HasState(a, current)
         THEN ClosureLoop(a, closure, rest)
         ELSE ClosureLoop(a, closure \cup Range(news), rest \o news)

\* epsilonClosure without following any transition
EpsilonClosureOfNothing(a, states) ==
    {id \in Range(states) : HasState(a, id)}

\* epsilonClosure without "Add initial states to closure"
EpsilonClosureOfTargets(a, states) == ClosureLoop(a, {}, states)

\* NFA.epsilonClosure(states), states a sequence of state ids (NoId: a null
\* or undefined entry)
EpsilonClosure(a, states) ==
    ClosureLoop(a, {id \in Range(states) : HasState(a, id)}, states)

NFAInitSimulation(a, input) ==
    LET r == [a EXCEPT !.input = input,
                       !.inputIndex = 0,
                       !.trace = <<>>,
                       !.isRunning = FALSE,
                       !.isAccepted = "null",
                       !.states = SetActive(a.states, {}),
                       !.transitions = SetHighlighted(a.transitions, {}),
                       !.currentStates = {}]
    IN IF Truthy(a.initialState)
       THEN LET initialClosure == EpsilonClosure(a, <<a.initialState.id>>) IN
            [r EXCEPT !.currentStates = initialClosure,
                      !.states = SetActive(a.states, initialClosure),
                      !.trace = <<TraceEntry(0, initialClosure, Null, "start")>>]
       ELSE r

\* the transitions an NFA step (and toDFA) follows from a set of states on a symbol
SymbolMoves(a, from, symbol) ==
    SelectSeq(a.transitions,
        LAMBDA t : /\ GetFromStateId(t) \in from
                   /\ TransitionAccepts(t, symbol)
                   /\ HasState(a, GetToStateId(t)))

\* the union of the epsilon closures of the single states
ClosureOfEach(a, ids) == UNION {EpsilonClosure(a, <<id>>) : id \in ids}

NFACheckAcceptance(a) ==
    IF a.inputIndex < Len(a.input)
    THEN [a EXCEPT !.isAccepted = "false"]
    ELSE LET finals == {f.id : f \in Range(GetFinalStates(a))} IN
         [a EXCEPT !.isAccepted = IF a.currentStates \cap finals # {} THEN "true" ELSE "false"]

NFAStep(a) ==
    IF a.inputIndex >= Len(a.input) \/ a.currentStates = {}
    THEN [a |-> NFACheckAcceptance([a EXCEPT !.isRunning = FALSE]), ret |-> FALSE]
    ELSE
      LET symbol == CharAt(a.input, a.inputIndex)
          used == SymbolMoves(a, a.currentStates, symbol)
          nextStates == {GetToStateId(t) : t \in Range(used)}
          closed == ClosureOfEach(a, nextStates)
          b == [a EXCEPT
                  !.currentStates = closed,
                  !.states = SetActive(a.states, closed),
                  !.transitions = SetHighlighted(a.transitions, {t.id : t \in Range(used)}),
                  !.trace = Append(a.trace,
                               TraceEntry(a.inputIndex + 1, closed, symbol,
                                          IF closed # {} THEN "read" ELSE "stuck")),
                  !.inputIndex = a.inputIndex + 1]
      IN IF closed = {}
         THEN [a |-> [b EXCEPT !.isAccepted = "false", !.isRunning = FALSE], ret |-> FALSE]
         ELSE [a |-> b, ret |-> TRUE]

-----------------------------------------------------------------------------
(* NFA.toDFA: subset construction *)

\* Array.from(set).map(s => s.id).sort(): the ids in ascending order (the
\* default sort compares the decimal strings, which for ids below 10 is the
\* numeric order); the joined string is modelled by the sorted sequence
RECURSIVE SortIds(_)
SortIds(ids) ==
    IF ids = {} THEN <<>>
    ELSE LET m == CHOOSE x \in ids : \A y \in ids : x <= y
         IN <<m>> \o SortIds(ids \ {m})

RECURSIVE JoinNames(_, _)
JoinNames(a, ids) ==
    IF ids = <<>> THEN ""
    ELSE GetState(a, ids[1]).name \o (IF Len(ids) > 1 THEN "," ELSE "") \o JoinNames(a, Tail(ids))

\* a key of the state map made of the lowest id of the subset alone
SubsetKeyOfFirst(ids) == IF ids = {} THEN <<>> ELSE <<SortIds(ids)[1]>>

\* Array.from(set).map(s => s.id).sort().join(','): the key of a subset in
\* the state map of toDFA
SubsetKey(ids) == SortIds(ids)

\* the name of a subset state; the members are listed by ascending id
SubsetName(a, ids) == "{" \o JoinNames(a, SortIds(ids)) \o "}"

SomeFinal(a, ids) == \E id \in ids : GetState(a, id).isFinal

\* stateMap.get(key): the entries of the map with this key
MapGet(stateMap, key) == SelectSeq(stateMap, LAMBDA e : e.key = key)

\* the body of alphabet.forEach for one popped queue entry; w is the
\* construction state [dfa, stateMap, queue, xOffset, sid, tid]
RECURSIVE ToDFASymbols(_, _, _, _, _)
ToDFASymbols(a, w, nfaStates, dfaState, symbols) ==
    IF symbols = <<>> THEN w
    ELSE
      LET symbol == Head(symbols)
          nextStates == {GetToStateId(t) : t \in Range(SymbolMoves(a, nfaStates, symbol))}
          closedNext == ClosureOfEach(a, nextStates)
          nextIds == SubsetKey(closedNext)
          seen == MapGet(w.stateMap, nextIds)
          opts == [id |-> NoId, name |-> SubsetName(a, closedNext),
                   x |-> w.xOffset, y |-> 200 + (Len(w.stateMap) % 3) * 100,
                   isInitial |-> FALSE, isFinal |-> SomeFinal(a, closedNext),
                   isHalt |-> FALSE]
          created == State(opts, w.sid)
          nextDFAState == IF seen # <<>> THEN seen[1].id ELSE created.id
          w1 == IF seen # <<>> THEN w
                ELSE [w EXCEPT !.dfa = AddState(w.dfa, created),
                               !.stateMap = Append(w.stateMap, [key |-> nextIds, id |-> created.id]),
                               !.queue = Append(w.queue, [nfaStates |-> closedNext, dfaState |-> created.id]),
                               !.xOffset = w.xOffset + 150,
                               !.sid = StateCounterAfterNew(opts, w.sid)]
          topts == FAOptions(dfaState, nextDFAState, <<symbol>>)
          w2 == [w1 EXCEPT !.dfa = AddTransition(w1.dfa, Transition(topts, w1.tid)),
                           !.tid = TransitionCounterAfterNew(topts, w1.tid)]
      IN IF symbol = EPS \/ nextStates = {}
         THEN ToDFASymbols(a, w, nfaStates, dfaState, Tail(symbols))
         ELSE ToDFASymbols(a, w2, nfaStates, dfaState, Tail(symbols))

\* while (queue.length > 0)
RECURSIVE ToDFALoop(_, _)
ToDFALoop(a, w) ==
    IF w.queue = <<>> THEN w
    ELSE LET e == Head(w.queue) IN
         ToDFALoop(a, ToDFASymbols(a, [w EXCEPT !.queue = Tail(w.queue)],
                                   e.nfaStates, e.dfaState, a.alphabet))

\* NFA.toDFA with State.nextId = sid and Transition.nextId = tid; the result
\* carries the DFA and the two counters afterwards
ToDFA(a, sid, tid) ==
    LET initialClosure == EpsilonClosure(a, <<a.initialState.id>>)
        initialIds == SubsetKey(initialClosure)
        opts == [id |-> NoId, name |-> SubsetName(a, initialClosure),
                 x |-> 100, y |-> 200,
                 isInitial |-> TRUE, isFinal |-> SomeFinal(a, initialClosure),
                 isHalt |-> FALSE]
        initialDFAState == State(opts, sid)
    IN ToDFALoop(a,
         [dfa |-> AddState(NewAutomaton("dfa"), initialDFAState),
          stateMap |-> <<[key |-> initialIds, id |-> initialDFAState.id]>>,
          queue |-> <<[nfaStates |-> initialClosure, dfaState |-> initialDFAState.id]>>,
          xOffset |-> 200,
          sid |-> StateCounterAfterNew(opts, sid),
          tid |-> tid])

-----------------------------------------------------------------------------
(* Simulation: PDA *)

\* stackWrite.split(''): the characters of a stack-write string
Split(w) ==
    CASE w = "AZ" -> <<"A", "Z">>
      [] w = "AA" -> <<"A", "A">>
      [] w = "ZZ" -> <<"Z", "Z">>
      [] w = "" -> <<>>
      [] OTHER -> <<w>>

Reverse(s) == [i \in DOMAIN s |-> s[Len(s) + 1 - i]]

PDATraceEntry(step, states, stack, kind) ==
    [step |-> step, states |-> states, symbol |-> Null, kind |-> kind, stack |-> stack]

PDAInitSimulation(a, input) ==
    LET r == [a EXCEPT !.input = input,
                       !.inputIndex = 0,
                       !.trace = <<>>,
                       !.isRunning = FALSE,
                       !.isAccepted = "null",
                       !.states = SetActive(a.states, {}),
                       !.transitions = SetHighlighted(a.transitions, {}),
                       !.currentStates = {},
                       !.stack = <<a.initialStackSymbol>>,
                       !.configurations = <<>>]
    IN IF Truthy(a.initialState)
       THEN [r EXCEPT !.currentStates = {a.initialState.id},
                      !.states = SetActive(a.states, {a.initialState.id}),
                      !.configurations = <<[state |-> a.initialState.id,
                                            stack |-> <<a.initialStackSymbol>>,
                                            inputIndex |-> 0]>>,
                      !.trace = <<PDATraceEntry(0, {a.initialState.id},
                                                <<a.initialStackSymbol>>, "start")>>]
       ELSE r

\* PDA.canTakeTransition
CanTakeTransition(t, symbol, stackTop) ==
    LET inputMatch == Len(t.symbols) = 0 \/ IsEpsilon(t) \/ Includes(t.symbols, symbol)
        stackRead == OrElse(t.stackRead, EPS)
        stackMatch == stackRead = EPS \/ stackRead = stackTop
    IN inputMatch /\ stackMatch

\* PDA.applyStackOperation
ApplyStackOperation(stack, t) ==
    LET stackRead == OrElse(t.stackRead, EPS)
        stackWrite == OrElse(t.stackWrite, EPS)
        popped == IF stackRead # EPS /\ Len(stack) > 0
                  THEN SubSeq(stack, 1, Len(stack) - 1) ELSE stack
    IN IF stackWrite # EPS THEN popped \o Reverse(Split(stackWrite)) ELSE popped

\* the moves of one transition when the epsilon move advances the input too
MovesOfConsumingOnEpsilon(a, config, t) ==
    LET symbol == IF config.inputIndex < Len(a.input)
                  THEN CharAt(a.input, config.inputIndex) ELSE Null
        stackTop == IF Len(config.stack) > 0 THEN config.stack[Len(config.stack)] ELSE EPS
        target == GetToStateId(t)
        newStack == ApplyStackOperation(config.stack, t)
        epsMove == IF IsEpsilon(t) /\ CanTakeTransition(t, Null, stackTop) /\ HasState(a, target)
                   THEN <<[state |-> target, stack |-> newStack,
                           inputIndex |-> config.inputIndex + 1, via |-> t.id]>>
                   ELSE <<>>
        symMove == IF /\ symbol # Null
                      /\ CanTakeTransition(t, symbol, stackTop)
                      /\ ~IsEpsilon(t)
                      /\ HasState(a, target)
                   THEN <<[state |-> target, stack |-> newStack,
                           inputIndex |-> config.inputIndex + 1, via |-> t.id]>>
                   ELSE <<>>
    IN epsMove \o symMove

\* the configurations one transition contributes for one configuration, in
\* the order the code pushes them: the epsilon move, then the symbol move
MovesOf(a, config, t) ==
    LET symbol == IF config.inputIndex < Len(a.input)
                  THEN CharAt(a.input, config.inputIndex) ELSE Null
        stackTop == IF Len(config.stack) > 0 THEN config.stack[Len(config.stack)] ELSE EPS
        target == GetToStateId(t)
        newStack == ApplyStackOperation(config.stack, t)
        epsMove == IF IsEpsilon(t) /\ CanTakeTransition(t, Null, stackTop) /\ HasState(a, target)
                   THEN <<[state |-> target, stack |-> newStack,
                           inputIndex |-> config.inputIndex, via |-> t.id]>>
                   ELSE <<>>
        symMove == IF /\ symbol # Null
                      /\ CanTakeTransition(t, symbol, stackTop)
                      /\ ~IsEpsilon(t)
                      /\ HasState(a, target)
                   THEN <<[state |-> target, stack |-> newStack,
                           inputIndex |-> config.inputIndex + 1, via |-> t.id]>>
                   ELSE <<>>
    IN epsMove \o symMove

RECURSIVE MovesOfConfig(_, _, _)
MovesOfConfig(a, config, ts) ==
    IF ts = <<>> THEN <<>>
    ELSE MovesOf(a, config, Head(ts)) \o MovesOfConfig(a, config, Tail(ts))

\* newConfigurations of PDA.step, each with the transition it was made by
RECURSIVE NewConfigurations(_, _)
NewConfigurations(a, configs) ==
    IF configs = <<>> THEN <<>>
    ELSE (IF Head(configs).inputIndex > Len(a.input) THEN <<>>
          ELSE MovesOfConfig(a, Head(configs), GetTransitionsFrom(a, Head(configs).state)))
         \o NewConfigurations(a, Tail(configs))

\* checkAcceptance that accepts an empty stack whatever acceptByEmptyStack is
PDACheckAcceptanceAnyEmptyStack(a) ==
    LET finalConfigs == SelectSeq(a.configurations, LAMBDA c : c.inputIndex >= Len(a.input))
        finals == {f.id : f \in Range(GetFinalStates(a))}
        byState == a.acceptByFinalState /\ \E c \in Range(finalConfigs) : c.state \in finals
        byStack == \E c \in Range(finalConfigs) : Len(c.stack) = 0
    IN [a EXCEPT !.isAccepted = IF finalConfigs # <<>> /\ (byState \/ byStack)
                                 THEN "true" ELSE "false"]

\* PDA.checkAcceptance
PDACheckAcceptance(a) ==
    LET finalConfigs == SelectSeq(a.configurations, LAMBDA c : c.inputIndex >= Len(a.input))
        finals == {f.id : f \in Range(GetFinalStates(a))}
        byState == a.acceptByFinalState /\ \E c \in Range(finalConfigs) : c.state \in finals
        byStack == a.acceptByEmptyStack /\ \E c \in Range(finalConfigs) : Len(c.stack) = 0
    IN [a EXCEPT !.isAccepted = IF finalConfigs # <<>> /\ (byState \/ byStack)
                                 THEN "true" ELSE "false"]

PDAStep(a) ==
    IF Len(a.configurations) = 0
    THEN [a |-> PDACheckAcceptance([a EXCEPT !.isRunning = FALSE]), ret |-> FALSE]
    ELSE
      LET moves == NewConfigurations(a, a.configurations)
          confs == [i \in DOMAIN moves |->
                      [state |-> moves[i].state, stack |-> moves[i].stack,
                       inputIndex |-> moves[i].inputIndex]]
          current == {c.state : c \in Range(confs)}
          shown == [a EXCEPT
                      !.configurations = confs,
                      !.currentStates = current,
                      !.states = SetActive(a.states, current),
                      !.transitions = SetHighlighted(a.transitions, {m.via : m \in Range(moves)}),
                      !.stack = IF Len(confs) > 0 THEN confs[1].stack ELSE a.stack,
                      !.inputIndex = IF Len(confs) > 0 THEN confs[1].inputIndex ELSE a.inputIndex]
          traced == IF Len(moves) > 0
                    THEN [shown EXCEPT !.trace = Append(a.trace,
                             PDATraceEntry(Len(a.trace), current, shown.stack, "moves"))]
                    ELSE shown
          allDone == \A c \in Range(confs) : c.inputIndex >= Len(a.input)
      IN IF Len(confs) = 0
         THEN [a |-> [traced EXCEPT !.isAccepted = "false", !.isRunning = FALSE], ret |-> FALSE]
         ELSE IF allDone
         THEN [a |-> PDACheckAcceptance(traced), ret |-> FALSE]
         ELSE [a |-> traced, ret |-> TRUE]

-----------------------------------------------------------------------------
(* Simulation: TuringMachine *)

Blanks(n, blank) == [i \in 1..n |-> blank]

\* TuringMachine.initializeTape, with visibleTapeStart and visibleTapeEnd
\* already set by initSimulation
InitializeTape(a, input) ==
    [a EXCEPT !.tape = Blanks(0 - a.visibleTapeStart, a.blankSymbol)
                       \o input
                       \o Blanks(Max(0, a.visibleTapeEnd - Len(input) + 1), a.blankSymbol),
              !.tapeAlphabet = SetAddAll(a.tapeAlphabet, input),
              !.headPosition = 0 - a.visibleTapeStart]

\* this.tape[this.headPosition]
CurrentCell(a) == a.tape[a.headPosition + 1]

\* getTapeCell(position), position a logical coordinate
GetTapeCell(a, position) ==
    LET index == position - a.visibleTapeStart IN
    IF index < 0 \/ index >= Len(a.tape) THEN a.blankSymbol ELSE a.tape[index + 1]

\* getCurrentSymbol
GetCurrentSymbol(a) == GetTapeCell(a, a.headPosition + a.visibleTapeStart)

TMTraceEntry(step, states, tape, headPosition, symbol, kind) ==
    [step |-> step, states |-> states, tape |-> tape, headPosition |-> headPosition,
     symbol |-> symbol, kind |-> kind]

TMInitSimulation(a, input) ==
    LET r == InitializeTape(
               [a EXCEPT !.input = input,
                         !.inputIndex = 0,
                         !.trace = <<>>,
                         !.isRunning = FALSE,
                         !.isAccepted = "null",
                         !.states = SetActive(a.states, {}),
                         !.transitions = SetHighlighted(a.transitions, {}),
                         !.currentStates = {},
                         !.visibleTapeStart = 0 - 10,
                         !.visibleTapeEnd = Max(10, Len(input) + 10)],
               input)
    IN IF Truthy(a.initialState)
       THEN [r EXCEPT !.currentStates = {a.initialState.id},
                      !.states = SetActive(a.states, {a.initialState.id}),
                      !.trace = <<TMTraceEntry(0, {a.initialState.id}, r.tape, 0,
                                               GetCurrentSymbol(r), "start")>>]
       ELSE r

\* checkAcceptance that accepts in every final or halt state
TMCheckAcceptanceHaltAccepts(a) ==
    IF a.currentStates = {}
    THEN [a EXCEPT !.isAccepted = "false"]
    ELSE LET currentState == GetState(a, CHOOSE id \in a.currentStates : TRUE) IN
         [a EXCEPT !.isAccepted = IF currentState.isFinal \/ currentState.isHalt
                                  THEN "true" ELSE "false"]

\* TuringMachine.checkAcceptance
TMCheckAcceptance(a) ==
    IF a.currentStates = {}
    THEN [a EXCEPT !.isAccepted = "false"]
    ELSE LET currentState == GetState(a, CHOOSE id \in a.currentStates : TRUE) IN
         IF currentState.isFinal \/ currentState.isHalt
         THEN [a EXCEPT !.isAccepted = IF currentState.isFinal THEN "true" ELSE "false"]
         ELSE [a EXCEPT !.isAccepted = "false"]

IsBlankNotation(s) == s = BLANK \/ s = "_" \/ s = ""

\* the predicate of transitions.find in TuringMachine.step
TMMatches(a, t, currentSymbol) ==
    LET readSym == OrElse(t.readSymbol, a.blankSymbol) IN
    \/ readSym = currentSymbol
    \/ (IsBlankNotation(readSym) /\ currentSymbol = a.blankSymbol)

\* "Write symbol" of step when nothing is written
ActualWriteNothing(a, t, currentSymbol) == currentSymbol

\* "Write symbol" of TuringMachine.step: what is stored in the cell under the
\* head when transition t is taken
ActualWrite(a, t, currentSymbol) ==
    LET writeSymbol == OrElse(t.writeSymbol, currentSymbol) IN
    IF IsBlankNotation(writeSymbol) THEN a.blankSymbol ELSE writeSymbol

\* "Move head" of step that extends the tape to the left without moving
\* visibleTapeStart
MoveHeadKeepingStart(a, written, direction) ==
    LET growLeft == direction = "L" /\ a.headPosition - 1 < 0
        growRight == direction = "R" /\ a.headPosition + 1 >= Len(written)
    IN [tape |-> IF growLeft THEN <<a.blankSymbol>> \o written
                 ELSE IF growRight THEN Append(written, a.blankSymbol)
                 ELSE written,
        headPosition |-> IF direction = "L" THEN (IF growLeft THEN 0 ELSE a.headPosition - 1)
                         ELSE IF direction = "R" THEN a.headPosition + 1
                         ELSE a.headPosition,
        visibleTapeStart |-> a.visibleTapeStart,
        visibleTapeEnd |-> IF growRight THEN a.visibleTapeEnd + 1 ELSE a.visibleTapeEnd]

\* "Move head" of step that stays on the last cell instead of extending the
\* tape to the right
MoveHeadClamped(a, written, direction) ==
    LET growLeft == direction = "L" /\ a.headPosition - 1 < 0
        atEnd == direction = "R" /\ a.headPosition + 1 >= Len(written)
    IN [tape |-> IF growLeft THEN <<a.blankSymbol>> \o written ELSE written,
        headPosition |-> IF direction = "L" THEN (IF growLeft THEN 0 ELSE a.headPosition - 1)
                         ELSE IF direction = "R" /\ ~atEnd THEN a.headPosition + 1
                         ELSE a.headPosition,
        visibleTapeStart |-> IF growLeft THEN a.visibleTapeStart - 1 ELSE a.visibleTapeStart,
        visibleTapeEnd |-> a.visibleTapeEnd]

\* "Move head" of TuringMachine.step on the tape as written, extending the
\* tape when the head leaves it
MoveHead(a, written, direction) ==
    LET growLeft == direction = "L" /\ a.headPosition - 1 < 0
        growRight == direction = "R" /\ a.headPosition + 1 >= Len(written)
    IN [tape |-> IF growLeft THEN <<a.blankSymbol>> \o written
                 ELSE IF growRight THEN Append(written, a.blankSymbol)
                 ELSE written,
        headPosition |-> IF direction = "L" THEN (IF growLeft THEN 0 ELSE a.headPosition - 1)
                         ELSE IF direction = "R" THEN a.headPosition + 1
                         ELSE a.headPosition,
        visibleTapeStart |-> IF growLeft THEN a.visibleTapeStart - 1 ELSE a.visibleTapeStart,
        visibleTapeEnd |-> IF growRight THEN a.visibleTapeEnd + 1 ELSE a.visibleTapeEnd]

TMStep(a) ==
    IF a.currentStates = {}
    THEN [a |-> TMCheckAcceptance([a EXCEPT !.isRunning = FALSE]), ret |-> FALSE]
    ELSE
      LET currentId == CHOOSE id \in a.currentStates : TRUE
          currentState == GetState(a, currentId)
          currentSymbol == CurrentCell(a)
          valid == FindFirst(GetTransitionsFrom(a, currentId),
                             LAMBDA t : TMMatches(a, t, currentSymbol))
      IN IF currentState.isHalt \/ currentState.isFinal
         THEN [a |-> TMCheckAcceptance([a EXCEPT !.isRunning = FALSE]), ret |-> FALSE]
         ELSE IF valid = <<>>
         THEN [a |-> [a EXCEPT
                        !.states = SetActive(a.states, {}),
                        !.transitions = SetHighlighted(a.transitions, {}),
                        !.trace = Append(a.trace,
                                     TMTraceEntry(Len(a.trace), {currentId}, a.tape,
                                                  a.headPosition + a.visibleTapeStart,
                                                  currentSymbol, "halt")),
                        !.isAccepted = "false",
                        !.isRunning = FALSE],
               ret |-> FALSE]
         ELSE
           LET t == valid[1]
               nextId == GetToStateId(t)
               actualWrite == ActualWrite(a, t, currentSymbol)
               written == [a.tape EXCEPT ![a.headPosition + 1] = actualWrite]
               direction == OrElse(t.direction, "R")
               moved == MoveHead(a, written, direction)
               tape2 == moved.tape
               head2 == moved.headPosition
               start2 == moved.visibleTapeStart
               end2 == moved.visibleTapeEnd
               next == GetState(a, nextId)
               b == [a EXCEPT
                       !.tape = tape2,
                       !.headPosition = head2,
                       !.visibleTapeStart = start2,
                       !.visibleTapeEnd = end2,
                       !.currentStates = {nextId},
                       !.states = SetActive(a.states, {nextId}),
                       !.transitions = SetHighlighted(a.transitions, {t.id}),
                       !.trace = Append(a.trace,
                                    TMTraceEntry(Len(a.trace), {nextId}, tape2, head2 + start2,
                                                 tape2[head2 + 1], "move")),
                       !.inputIndex = a.inputIndex + 1]
           IN IF ~HasState(a, nextId)
              THEN [a |-> [a EXCEPT !.states = SetActive(a.states, {}),
                                    !.transitions = SetHighlighted(a.transitions, {}),
                                    !.isAccepted = "false",
                                    !.isRunning = FALSE],
                    ret |-> FALSE]
              ELSE IF next.isHalt \/ next.isFinal
              THEN [a |-> TMCheckAcceptance(b), ret |-> FALSE]
              ELSE [a |-> b, ret |-> TRUE]

\* a loop guard that does not wait for the trace to grow beyond 100 entries
LoopDetectedEarly(a) ==
    LET current == a.trace[Len(a.trace)]
        recent == SubSeq(a.trace, Max(1, Len(a.trace) - 49), Len(a.trace))
        duplicates == SelectSeq(recent,
                         LAMBDA e : /\ e.states = current.states
                                    /\ e.headPosition = current.headPosition
                                    /\ e.tape = current.tape)
    IN Len(duplicates) > 2

\* the loop guard of TuringMachine.run, evaluated after a step that continued
LoopDetected(a) ==
    /\ Len(a.trace) > 100
    /\ LET current == a.trace[Len(a.trace)]
           recent == SubSeq(a.trace, Max(1, Len(a.trace) - 49), Len(a.trace))
           duplicates == SelectSeq(recent,
                            LAMBDA e : /\ e.states = current.states
                                       /\ e.headPosition = current.headPosition
                                       /\ e.tape = current.tape)
       IN Len(duplicates) > 2

LoopGuardEntry(a) ==
    LET current == a.trace[Len(a.trace)] IN
    TMTraceEntry(Len(a.trace), current.states, current.tape, current.headPosition,
                 current.symbol, "loop")

-----------------------------------------------------------------------------
(* Dispatch on the class of the object *)

InitSimulation(a, input) ==
    CASE a.type = "nfa" -> NFAInitSimulation(a, input)
      [] a.type = "pda" -> PDAInitSimulation(a, input)
      [] a.type = "tm" -> TMInitSimulation(a, input)
      [] OTHER -> BaseInitSimulation(a, input)

Step(a) ==
    CASE a.type = "nfa" -> NFAStep(a)
      [] a.type = "pda" -> PDAStep(a)
      [] a.type = "tm" -> TMStep(a)
      [] OTHER -> DFAStep(a)

CheckAcceptance(a) ==
    CASE a.type = "nfa" -> NFACheckAcceptance(a)
      [] a.type = "pda" -> PDACheckAcceptance(a)
      [] a.type = "tm" -> TMCheckAcceptance(a)
      [] OTHER -> BaseCheckAcceptance(a)

\* the default of the parameter maxSteps of run
DefaultMaxSteps(type) == IF type = "tm" THEN 10000 ELSE 1000

\* the condition of the while loop of Automaton.run, PDA.run, TuringMachine.run
\* the conditions of the loops of run without steps < maxSteps
RunConditionWithoutBudget(a, n, max) ==
    CASE a.type = "pda" -> Len(a.configurations) > 0
      [] a.type = "tm" -> TRUE
      [] OTHER -> a.inputIndex < Len(a.input) /\ a.currentStates # {}

RunCondition(a, n, max) ==
    CASE a.type = "pda" -> n < max /\ Len(a.configurations) > 0
      [] a.type = "tm" -> n < max
      [] OTHER -> a.inputIndex < Len(a.input) /\ n < max /\ a.currentStates # {}

\* the loop is left although nothing but the budget stops it: the run is
\* undecided and its machine could step on
BudgetExhausted(a, n, max) ==
    /\ n >= max
    /\ CASE a.type = "pda" -> Len(a.configurations) > 0
         [] a.type = "tm" -> TRUE
         [] OTHER -> a.inputIndex < Len(a.input) /\ a.currentStates # {}

\* what the body of the loop does with r, the outcome of this.step(): the
\* object after the body and whether the body ends in break
AfterStep(type, r) ==
    CASE type = "pda" -> [a |-> r.a, break |-> r.a.isAccepted = "true" \/ ~r.ret]
      [] type = "tm" ->
           IF ~r.ret THEN [a |-> r.a, break |-> TRUE]
           ELSE IF LoopDetected(r.a)
           THEN [a |-> [r.a EXCEPT !.trace = Append(r.a.trace, LoopGuardEntry(r.a))],
                 break |-> TRUE]
           ELSE [a |-> r.a, break |-> FALSE]
      [] OTHER -> [a |-> r.a, break |-> FALSE]

\* one pass through the body of the loop
RunBody(a) == AfterStep(a.type, Step(a))

\* the statements of run after the loop
RunEpilogue(a) ==
    LET b == [a EXCEPT !.isRunning = FALSE] IN
    IF a.type \in {"pda", "tm"}
    THEN IF b.isAccepted = "null" THEN CheckAcceptance(b) ELSE b
    ELSE CheckAcceptance(b)

-----------------------------------------------------------------------------
(* Machines: built as the README does, by addState and addTransition *)

RECURSIVE AddStates(_, _, _)
AddStates(a, options, sid) ==
    IF options = <<>> THEN a
    ELSE AddStates(AddState(a, State(Head(options), sid)), Tail(options),
                   StateCounterAfterNew(Head(options), sid))

RECURSIVE AddTransitions(_, _, _)
AddTransitions(a, options, tid) ==
    IF options = <<>> THEN a
    ELSE AddTransitions(AddTransition(a, Transition(Head(options), tid)), Tail(options),
                        TransitionCounterAfterNew(Head(options), tid))

Machine(type, stateOptions, transitionOptions) ==
    AddTransitions(AddStates(NewAutomaton(type), stateOptions, 0), transitionOptions, 0)

Plain == StateOptions(50, 50, FALSE, FALSE, FALSE)
Final == StateOptions(50, 50, FALSE, TRUE, FALSE)
HaltFinal == StateOptions(50, 50, FALSE, TRUE, TRUE)

PDAOptions(from, to, symbol, pop, push) ==
    TransitionOptions(from, to, <<symbol>>, pop, push, Null, Null, Null)

TMOptions(from, to, read, write, move) ==
    TransitionOptions(from, to, <<>>, Null, Null, read, write, move)

\* S1: DFA for (ab)+
S1 == Machine("dfa", <<Plain, Plain, Final>>,
              <<FAOptions(0, 1, <<"a">>), FAOptions(1, 2, <<"b">>), FAOptions(2, 1, <<"a">>)>>)

\* S2: NFA with epsilon for a*b
S2 == Machine("nfa", <<Plain, Plain, Final>>,
              <<FAOptions(0, 1, <<EPS>>), FAOptions(1, 1, <<"a">>), FAOptions(1, 2, <<"b">>)>>)

\* S4: PDA for a^n b^n, n >= 1, by final state
S4 == Machine("pda", <<Plain, Plain, Final>>,
              <<PDAOptions(0, 0, "a", "Z", "AZ"), PDAOptions(0, 0, "a", "A", "AA"),
                PDAOptions(0, 1, "b", "A", EPS), PDAOptions(1, 1, "b", "A", EPS),
                PDAOptions(1, 2, EPS, "Z", "Z")>>)

\* S5: TM that flips bits
S5 == Machine("tm", <<Plain, HaltFinal>>,
              <<TMOptions(0, 0, "0", "1", "R"), TMOptions(0, 0, "1", "0", "R"),
                TMOptions(0, 1, BLANK, BLANK, "S")>>)

\* S6: TM that moves right for ever
S6 == Machine("tm", <<Plain>>, <<TMOptions(0, 0, BLANK, BLANK, "R")>>)

\* a TM that stays in place for ever: q0 on blank writes blank and stays
Stayer == Machine("tm", <<Plain>>, <<TMOptions(0, 0, BLANK, BLANK, "S")>>)

\* a*: one state, initial and final, with a loop on a
Star(type) == Machine(type, <<Final>>, <<FAOptions(0, 0, <<"a">>)>>)

\* a PDA that pushes on every a and accepts by final state at any time
Pusher == Machine("pda", <<Final>>, <<PDAOptions(0, 0, "a", EPS, "A")>>)

\* the generated finite automata: states 0 and 1, any set of final states,
\* up to MaxFATransitions different transitions
MaxFATransitions == 2
MaxInputLen == 2

FAStateIds == {0, 1}

FALabels == <<(<<"a">>), (<<"b">>), (<<EPS>>)>>

\* the edges, numbered; edge e goes from EdgeFrom(e) to EdgeTo(e)
EdgeCount == Cardinality(FAStateIds) * Cardinality(FAStateIds) * Len(FALabels)

EdgeOptions(e) ==
    FAOptions(e \div (Cardinality(FAStateIds) * Len(FALabels)),
              (e \div Len(FALabels)) % Cardinality(FAStateIds),
              FALabels[(e % Len(FALabels)) + 1])

EdgeSets == {es \in SUBSET (0..(EdgeCount - 1)) : Cardinality(es) <= MaxFATransitions}

GeneratedFA(type, finals, es) ==
    Machine(type,
            [i \in 1..Cardinality(FAStateIds) |-> IF (i - 1) \in finals THEN Final ELSE Plain],
            [i \in 1..Cardinality(es) |-> EdgeOptions(SortIds(es)[i])])

\* the machines of the simulation sessions, by name
Scenarios ==
    {[name |-> "S1", machine |-> S1], [name |-> "S2", machine |-> S2],
     [name |-> "S4", machine |-> S4], [name |-> "S5", machine |-> S5],
     [name |-> "S6", machine |-> S6],
     [name |-> "star", machine |-> Star("nfa")], [name |-> "star", machine |-> Star("dfa")],
     [name |-> "pusher", machine |-> Pusher]}
    \cup {[name |-> "generated", machine |-> GeneratedFA(type, finals, es)] :
            type \in {"dfa", "nfa"}, finals \in SUBSET FAStateIds, es \in EdgeSets}

\* the strings over a set of characters of length up to n
RECURSIVE Strings(_, _)
Strings(chars, n) ==
    IF n = 0 THEN {<<>>}
    ELSE LET shorter == Strings(chars, n - 1) IN
         shorter \cup {Append(w, c) : w \in shorter, c \in chars}

Repeat(w, n) == [i \in 1..(n * Len(w)) |-> w[((i - 1) % Len(w)) + 1]]

\* the inputs a session tests its machine on
Inputs(name, type) ==
    CASE name = "S1" ->
           Strings({"a", "b"}, MaxInputLen)
           \cup {<<"a", "b", "a", "b">>, <<"a", "b", "b">>,
                 Append(Repeat(<<"a", "b">>, DefaultMaxSteps(type) \div 2), "a")}
      [] name = "S2" ->
           Strings({"a", "b"}, MaxInputLen) \cup {<<"a", "a", "a", "b">>}
      [] name = "S4" ->
           Strings({"a", "b"}, MaxInputLen)
           \cup {<<"a", "a", "b">>, <<"a", "b", "b">>, <<"a", "a", "b", "b">>,
                 <<"a", "a", "a", "b", "b", "b">>}
      [] name = "S5" -> Strings({"0", "1"}, MaxInputLen) \cup {<<"0", "1", "1", "0">>}
      [] name = "S6" -> {<<>>}
      [] name = "stayer" -> {<<>>}
      [] name = "star" ->
           Strings({"a", "b"}, MaxInputLen) \cup {Repeat(<<"a">>, DefaultMaxSteps(type) + 1)}
      [] OTHER -> Strings({"a", "b"}, MaxInputLen)

-----------------------------------------------------------------------------
(* Simulation sessions: accepts(w), run(maxSteps) and toDFA *)

MaxBudget == 2

editVars == <<stateNextId, transitionNextId, calls, simulator>>

\* accepts(w): initSimulation(w), then run() up to the first test of its loop
DoAccepts ==
    /\ pc = "idle"
    /\ scenario # "S6"
    /\ \E w \in Inputs(scenario, automaton.type) :
         automaton' = [InitSimulation(automaton, w) EXCEPT !.isRunning = TRUE]
    /\ steps' = 0
    /\ maxSteps' = DefaultMaxSteps(automaton.type)
    /\ pc' = "run"
    /\ UNCHANGED <<editVars, lastOp, prior, scenario>>

\* initSimulation(w); run(m) with a small budget m, up to the first test of
\* the loop
DoRun ==
    /\ pc = "idle"
    /\ \E w \in Inputs(scenario, automaton.type), m \in 1..MaxBudget :
         /\ Len(w) <= MaxInputLen + 2
         /\ automaton' = [InitSimulation(automaton, w) EXCEPT !.isRunning = TRUE]
         /\ maxSteps' = m
    /\ steps' = 0
    /\ pc' = "run"
    /\ UNCHANGED <<editVars, lastOp, prior, scenario>>

\* one pass through the loop of run
RunIteration ==
    /\ pc = "run"
    /\ RunCondition(automaton, steps, maxSteps)
    /\ \E r \in {RunBody(automaton)} :
         /\ automaton' = r.a
         /\ pc' = IF r.break THEN "exit" ELSE "run"
    /\ steps' = steps + 1
    /\ UNCHANGED <<editVars, lastOp, maxSteps, prior, scenario>>

\* run leaves its loop and returns
RunReturn ==
    /\ pc = "exit" \/ (pc = "run" /\ ~RunCondition(automaton, steps, maxSteps))
    /\ automaton' = RunEpilogue(automaton)
    /\ lastOp' = [name |-> "run", ret |-> automaton'.isAccepted,
                  note |-> IF pc = "run" /\ BudgetExhausted(automaton, steps, maxSteps)
                           THEN "budget" ELSE "decided"]
    /\ pc' = "done"
    /\ UNCHANGED <<editVars, steps, maxSteps, prior, scenario>>

\* after nfa.accepts(w) returned: dfa = nfa.toDFA(), then dfa.accepts(w) up
\* to the first test of the loop of run
DoToDFA ==
    /\ pc = "done"
    /\ automaton.type = "nfa"
    /\ maxSteps = DefaultMaxSteps("nfa")
    /\ prior = "none"
    /\ LET w == ToDFA(automaton, stateNextId, transitionNextId) IN
         /\ automaton' = [InitSimulation(w.dfa, automaton.input) EXCEPT !.isRunning = TRUE]
         /\ stateNextId' = w.sid
         /\ transitionNextId' = w.tid
    /\ prior' = automaton.isAccepted
    /\ steps' = 0
    /\ pc' = "run"
    /\ UNCHANGED <<lastOp, calls, maxSteps, scenario, simulator>>

\* nfa.epsilonClosure(states) for an array of states of the NFA, in
\* ascending or descending order of id
DoEpsilonClosure ==
    /\ pc = "idle"
    /\ automaton.type = "nfa"
    /\ \E S \in SUBSET StateIds(automaton) :
         \E states \in {SortIds(S), Reverse(SortIds(S))} :
            lastOp' = [name |-> "epsilonClosure",
                       ret |-> EpsilonClosure(automaton, states),
                       note |-> states]
    /\ pc' = "closed"
    /\ UNCHANGED <<automaton, editVars, steps, maxSteps, prior, scenario>>

\* the machine that never halts: initSimulation(""); run(LongBudget), with a
\* budget beyond the 100 trace entries the loop guard waits for
LongBudget == 120
DoRunLong ==
    /\ pc = "idle"
    /\ scenario = "S6"
    /\ automaton' = [InitSimulation(automaton, <<>>) EXCEPT !.isRunning = TRUE]
    /\ maxSteps' = LongBudget
    /\ steps' = 0
    /\ pc' = "run"
    /\ UNCHANGED <<editVars, lastOp, prior, scenario>>

InitSim ==
    /\ simulator = NewSimulator
    /\ \E s \in Scenarios \cup {[name |-> "stayer", machine |-> Stayer]} :
         /\ scenario = s.name
         /\ automaton = s.machine
         /\ stateNextId = Len(s.machine.states)
         /\ transitionNextId = Len(s.machine.transitions)
    /\ lastOp = Called("new", "none")
    /\ calls = 0
    /\ pc = "idle"
    /\ steps = 0
    /\ maxSteps = 0
    /\ prior = "none"

NextSim ==
    \/ DoAccepts
    \/ DoRun
    \/ RunIteration
    \/ RunReturn
    \/ DoToDFA
    \/ DoRunLong
    \/ DoEpsilonClosure

SpecSim == InitSim /\ [][NextSim]_vars

-----------------------------------------------------------------------------
(* Reference semantics of finite automata, by the labels of the transitions *)

\* the states one transition labelled with symbol c leads to from a state of S
SymbolSuccessors(a, S, c) ==
    {GetToStateId(t) : t \in {u \in Range(a.transitions) :
                                  GetFromStateId(u) \in S /\ Includes(u.symbols, c)}}

\* the states one epsilon-transition leads to from a state of S, and S
EpsilonSuccessors(a, S) ==
    S \cup {GetToStateId(t) : t \in {u \in Range(a.transitions) :
                                         GetFromStateId(u) \in S /\ Includes(u.symbols, EPS)}}

\* the states reachable from S by epsilon-transitions alone
RECURSIVE EpsilonReachable(_, _)
EpsilonReachable(a, S) ==
    LET T == EpsilonSuccessors(a, S) IN
    IF T = S THEN S ELSE EpsilonReachable(a, T)

\* the states in which a path from a state of S that reads w[lo+1..hi],
\* interleaved with epsilon-transitions, can end
RECURSIVE PathEnds(_, _, _, _, _)
PathEnds(a, S, w, lo, hi) ==
    IF S = {} THEN {}
    ELSE IF hi = lo THEN EpsilonReachable(a, S)
    ELSE IF hi = lo + 1
    THEN EpsilonReachable(a, SymbolSuccessors(a, EpsilonReachable(a, S), w[hi]))
    ELSE LET mid == (lo + hi) \div 2 IN
         PathEnds(a, PathEnds(a, S, w, lo, mid), w, mid, hi)

\* there is a path from the initial state that reads w and ends in a final state
AcceptingPathExists(a, w) ==
    \E id \in PathEnds(a, {a.initialState.id}, w, 0, Len(w)) :
        HasState(a, id) /\ GetState(a, id).isFinal

\* no epsilon-transition, at most one transition per state and symbol
Deterministic(a) ==
    /\ \A t \in Range(a.transitions) : ~IsEpsilon(t)
    /\ \A i, j \in 1..Len(a.transitions) :
         (/\ i # j
          /\ GetFromStateId(a.transitions[i]) = GetFromStateId(a.transitions[j]))
         => Range(a.transitions[i].symbols) \cap Range(a.transitions[j].symbols) = {}

\* the state the unique matching transitions lead to from state q on
\* w[lo+1..hi], NoId when some symbol has no matching transition
RECURSIVE Follow(_, _, _, _, _)
Follow(a, q, w, lo, hi) ==
    IF q = NoId \/ hi = lo THEN q
    ELSE IF hi = lo + 1
    THEN LET ts == {t \in Range(a.transitions) :
                        GetFromStateId(t) = q /\ Includes(t.symbols, w[hi])} IN
         IF ts = {} THEN NoId ELSE GetToStateId(CHOOSE t \in ts : TRUE)
    ELSE LET mid == (lo + hi) \div 2 IN
         Follow(a, Follow(a, q, w, lo, mid), w, mid, hi)

FollowsToFinal(a, w) ==
    LET q == Follow(a, a.initialState.id, w, 0, Len(w)) IN
    q # NoId /\ GetState(a, q).isFinal

\* accepts(w) has returned
AcceptsReturned ==
    pc = "done" /\ maxSteps = DefaultMaxSteps(automaton.type)

-----------------------------------------------------------------------------
(* Claims on acceptance *)

S4Accepted == {<<"a", "b">>, <<"a", "a", "b", "b">>, <<"a", "a", "a", "b", "b", "b">>}
S4Rejected == {<<>>, <<"a">>, <<"b">>, <<"a", "a", "b">>, <<"a", "b", "b">>, <<"b", "a">>}

\* C1: whenever accepts(w) has returned on the PDA of S4, it returned true
\* for w in {ab, aabb, aaabbb} and false for w in {"", a, b, aab, abb, ba}
C1_S4Verdicts ==
    (scenario = "S4" /\ AcceptsReturned) =>
        /\ automaton.input \in S4Accepted => automaton.isAccepted = "true"
        /\ automaton.input \in S4Rejected => automaton.isAccepted = "false"

\* C2: whenever dfa.accepts(w) has returned after nfa.accepts(w), with dfa
\* the result of nfa.toDFA(), the two calls returned the same value
C2_ToDFAEquivalent ==
    (pc = "done" /\ prior # "none") => automaton.isAccepted = prior

\* an NFA's accepts(w) has returned
NFAAcceptsReturned ==
    AcceptsReturned /\ automaton.type = "nfa" /\ Truthy(automaton.initialState)

\* accepts has returned true on the S2 NFA for b, ab, aaab and false for
\* "", a, ba
S2Verdicts ==
    (scenario = "S2" /\ NFAAcceptsReturned) =>
        /\ automaton.input \in {<<"b">>, <<"a", "b">>, <<"a", "a", "a", "b">>}
             => automaton.isAccepted = "true"
        /\ automaton.input \in {<<>>, <<"a">>, <<"b", "a">>}
             => automaton.isAccepted = "false"

C4_DFASemantics ==
    (/\ AcceptsReturned
     /\ automaton.type = "dfa"
     /\ prior = "none"
     /\ Truthy(automaton.initialState)
     /\ Deterministic(automaton)) =>
        (automaton.isAccepted = "true" <=> FollowsToFinal(automaton, automaton.input))

\* C5: whenever run(maxSteps) has returned because its budget was exhausted,
\* isAccepted is false
C5_BudgetExhaustedRejects ==
    (pc = "done" /\ lastOp.note = "budget") => automaton.isAccepted = "false"

-----------------------------------------------------------------------------
(* Claims on the editor session *)

\* C6: after any sequence of editing calls every transition has both its
\* endpoints, by id, among the states of the automaton
C6_TransitionsClosed ==
    \A t \in Range(automaton.transitions) :
        /\ GetFromStateId(t) \in StateIds(automaton)
        /\ GetToStateId(t) \in StateIds(automaton)

\* removeState has just removed a state together with a transition incident to it
C6_Witness ==
    /\ lastOp.name = "removeState"
    /\ automaton.historyIndex >= 1
    /\ Len(automaton.states) >= 1
    /\ \E t \in Range(automaton.history[automaton.historyIndex].transitions) :
         t.fromState \notin StateIds(automaton) \/ t.toState \notin StateIds(automaton)

\* C7: after any sequence of editing calls at most one state has isInitial = true
C7_AtMostOneInitial ==
    Cardinality({i \in DOMAIN automaton.states : automaton.states[i].isInitial}) <= 1

\* addState with isInitial requested has just displaced the old initial state
C7_Witness ==
    /\ lastOp.name = "addState"
    /\ Len(automaton.states) = 2
    /\ automaton.states[2].isInitial
    /\ ~automaton.states[1].isInitial

\* C9: loadFromJSON, undo and redo leave the history sequence as it is
C9_HistoryUntouched ==
    [][lastOp'.name \in {"loadFromJSON", "undo", "redo"}
         => automaton'.history = automaton.history]_vars

\* loadFromJSON has just loaded an older document into an automaton with a history
C9_Witness ==
    /\ lastOp.name = "loadFromJSON"
    /\ Len(automaton.history) >= 2
    /\ ToJSON(automaton) # automaton.history[Len(automaton.history)]

-----------------------------------------------------------------------------
(* A long editing session: the mutating calls in a fixed rotation, with undo
   and redo at any time *)

Mutators ==
    {"addState", "removeState", "addTransition", "removeTransition",
     "setInitialState", "clear"}

\* the states are the ones a rotation adds, none removed yet
Building(a) == IF Len(a.states) = 0 THEN TRUE ELSE a.states[1].id = 0

FirstIsInitial(a) ==
    IF Len(a.states) = 0 THEN TRUE
    ELSE Truthy(a.initialState) /\ a.initialState.id = a.states[1].id

histVars == <<calls, pc, steps, maxSteps, prior, scenario, simulator>>

ScriptAddState ==
    /\ Building(automaton)
    /\ Len(automaton.states) < MaxStates
    /\ LET opts == StateOptions(50, 50, FALSE, FALSE, FALSE) IN
         /\ automaton' = AddState(automaton, State(opts, stateNextId))
         /\ stateNextId' = StateCounterAfterNew(opts, stateNextId)
    /\ lastOp' = Called("addState", "none")
    /\ UNCHANGED <<transitionNextId, histVars>>

ScriptAddTransition ==
    /\ Building(automaton)
    /\ FirstIsInitial(automaton)
    /\ Len(automaton.states) = MaxStates
    /\ Len(automaton.transitions) < MaxTransitions
    /\ LET label == CHOOSE l \in Labels(automaton.type) : l.symbols = <<"a">>
           opts == [label EXCEPT !.fromState = automaton.states[1].id,
                                 !.toState = automaton.states[Len(automaton.states)].id] IN
         /\ automaton' = AddTransition(automaton, Transition(opts, transitionNextId))
         /\ transitionNextId' = TransitionCounterAfterNew(opts, transitionNextId)
    /\ lastOp' = Called("addTransition", "none")
    /\ UNCHANGED <<stateNextId, histVars>>

ScriptSetInitialState ==
    /\ Building(automaton)
    /\ FirstIsInitial(automaton)
    /\ Len(automaton.states) = MaxStates
    /\ Len(automaton.transitions) = MaxTransitions
    /\ automaton' = SetInitialState(automaton,
                       [kind |-> "id", id |-> automaton.states[Len(automaton.states)].id])
    /\ lastOp' = Called("setInitialState", "none")
    /\ UNCHANGED <<stateNextId, transitionNextId, histVars>>

ScriptRemoveTransition ==
    /\ Building(automaton)
    /\ ~FirstIsInitial(automaton)
    /\ Len(automaton.transitions) > 0
    /\ automaton' = RemoveTransition(automaton, automaton.transitions[1].id)
    /\ lastOp' = Called("removeTransition", "none")
    /\ UNCHANGED <<stateNextId, transitionNextId, histVars>>

ScriptRemoveState ==
    /\ Building(automaton)
    /\ ~FirstIsInitial(automaton)
    /\ Len(automaton.transitions) = 0
    /\ automaton' = RemoveState(automaton, automaton.states[1].id)
    /\ lastOp' = Called("removeState", "none")
    /\ UNCHANGED <<stateNextId, transitionNextId, histVars>>

ScriptClear ==
    /\ ~Building(automaton)
    /\ automaton' = Clear(automaton)
    /\ stateNextId' = 0
    /\ transitionNextId' = 0
    /\ lastOp' = Called("clear", "none")
    /\ UNCHANGED histVars

ScriptUndo ==
    /\ automaton' = Undo(automaton)
    /\ stateNextId' = IF CanUndo(automaton)
                      THEN StateCounterAfterLoad(automaton.history[automaton.historyIndex])
                      ELSE stateNextId
    /\ transitionNextId' = IF CanUndo(automaton)
                           THEN TransitionCounterAfterLoad(automaton.history[automaton.historyIndex])
                           ELSE transitionNextId
    /\ lastOp' = Called("undo", IF CanUndo(automaton) THEN "true" ELSE "false")
    /\ UNCHANGED histVars

ScriptRedo ==
    /\ automaton' = Redo(automaton)
    /\ stateNextId' = IF CanRedo(automaton)
                      THEN StateCounterAfterLoad(automaton.history[automaton.historyIndex + 2])
                      ELSE stateNextId
    /\ transitionNextId' = IF CanRedo(automaton)
                           THEN TransitionCounterAfterLoad(automaton.history[automaton.historyIndex + 2])
                           ELSE transitionNextId
    /\ lastOp' = Called("redo", IF CanRedo(automaton) THEN "true" ELSE "false")
    /\ UNCHANGED histVars

InitHist ==
    /\ simulator = NewSimulator
    /\ automaton \in {NewAutomaton(type) : type \in EditTypes}
    /\ stateNextId = 0
    /\ transitionNextId = 0
    /\ lastOp = Called("new", "none")
    /\ calls = 0
    /\ pc = "idle"
    /\ steps = 0
    /\ maxSteps = 0
    /\ prior = "none"
    /\ scenario = "history"

NextHist ==
    \/ ScriptAddState
    \/ ScriptAddTransition
    \/ ScriptSetInitialState
    \/ ScriptRemoveTransition
    \/ ScriptRemoveState
    \/ ScriptClear
    \/ ScriptUndo
    \/ ScriptRedo

SpecHist == InitHist /\ [][NextHist]_vars

\* the snapshots up to the current one
Past(a) == SubSeq(a.history, 1, a.historyIndex + 1)

\* C8: the history never holds more than 50 snapshots; each mutating call
\* appends the snapshot of the model it leaves, evicting the oldest one when
\* there are 50 already, and leaves the index on the newest
C8_HistoryCapped ==
    /\ [](Len(automaton.history) <= MaxHistory)
    /\ [][lastOp'.name \in Mutators =>
            /\ automaton'.history =
                 Append(IF Len(Past(automaton)) < MaxHistory
                        THEN Past(automaton) ELSE Tail(Past(automaton)),
                        ToJSON(automaton'))
            /\ automaton'.historyIndex = Len(automaton'.history) - 1]_vars

\* a mutating call has just evicted the oldest snapshot, the one of the
\* first addState
C8_Witness ==
    /\ lastOp.name \in Mutators
    /\ Len(automaton.history) = MaxHistory
    /\ automaton.historyIndex = MaxHistory - 1
    /\ Len(automaton.history[1].states) # 1

-----------------------------------------------------------------------------
(* The interchange XML: a document is modelled by its elements, every text
   and attribute as the string the code writes *)

\* the numbers whose decimal text parseInt and parseFloat are given
Numerals == 0..100

\* the text of `${n}` for a number or undefined
NumberText(n) == IF n = NoId THEN "undefined" ELSE ToString(n)

\* parseInt(text), parseFloat(text): NoId stands for NaN
ParseNumber(text) ==
    IF \E n \in Numerals : ToString(n) = text
    THEN CHOOSE n \in Numerals : ToString(n) = text
    ELSE NoId

\* the children of a <transition> element; Null: no such child
TransitionToXML(type, t) ==
    [from  |-> NumberText(GetFromStateId(t)),
     to    |-> NumberText(GetToStateId(t)),
     reads |-> IF type = "tm" THEN <<OrElse(t.readSymbol, "")>>
               ELSE IF type = "pda"
               THEN <<IF Len(t.symbols) > 0 THEN OrElse(t.symbols[1], "") ELSE "">>
               ELSE [i \in DOMAIN t.symbols |-> IF t.symbols[i] = EPS THEN "" ELSE t.symbols[i]],
     write |-> IF type = "tm" THEN OrElse(t.writeSymbol, "") ELSE Null,
     move  |-> IF type = "tm" THEN OrElse(t.direction, "R") ELSE Null,
     pop   |-> IF type = "pda" THEN OrElse(t.stackRead, "") ELSE Null,
     push  |-> IF type = "pda" THEN OrElse(t.stackWrite, "") ELSE Null]

StateToXML(s) ==
    [id |-> NumberText(s.id), name |-> s.name,
     x |-> NumberText(s.x), y |-> NumberText(s.y),
     initial |-> s.isInitial, final |-> s.isFinal]

\* Automaton.toJFLAPXML
ToJFLAPXML(a) ==
    [type |-> a.type,
     states |-> [i \in DOMAIN a.states |-> StateToXML(a.states[i])],
     transitions |-> [i \in DOMAIN a.transitions |-> TransitionToXML(a.type, a.transitions[i])]]

\* the class fromJFLAPXML instantiates for the text of <type>
XMLClass(type) ==
    IF type \in {"turing", "tm"} THEN "tm" ELSE IF type = "pda" THEN "pda" ELSE "nfa"

\* new State({...}) from a <state> element
StateFromXML(elem) ==
    State([id |-> ParseNumber(elem.id), name |-> elem.name,
           x |-> ParseNumber(elem.x), y |-> ParseNumber(elem.y),
           isInitial |-> elem.initial, isFinal |-> elem.final, isHalt |-> FALSE], 0)

\* querySelector('read')?.textContent: the text of the first <read>
FirstRead(elem) == IF Len(elem.reads) > 0 THEN elem.reads[1] ELSE Null

\* new Transition({fromState, toState}) and the assignments that follow it
TransitionFromXML(type, elem, states, id) ==
    LET t == Transition(TransitionOptions(FindStateId(states, ParseNumber(elem.from)),
                                          FindStateId(states, ParseNumber(elem.to)),
                                          <<>>, Null, Null, Null, Null, Null), id)
    IN IF type \in {"turing", "tm"}
       THEN [t EXCEPT !.readSymbol = OrElse(FirstRead(elem), BLANK),
                      !.writeSymbol = OrElse(elem.write, BLANK),
                      !.direction = OrElse(elem.move, "R")]
       ELSE IF type = "pda"
       THEN [t EXCEPT !.symbols = <<OrElse(FirstRead(elem), EPS)>>,
                      !.stackRead = OrElse(elem.pop, EPS),
                      !.stackWrite = OrElse(elem.push, EPS)]
       ELSE [t EXCEPT !.symbols = <<OrElse(FirstRead(elem), EPS)>>]

\* the last element of the sequence that satisfies isInitial, as the
\* forEach over the <state> elements leaves this.initialState
LastInitial(states) ==
    IF \E i \in DOMAIN states : states[i].isInitial
    THEN RefState(states[CHOOSE i \in DOMAIN states :
                            /\ states[i].isInitial
                            /\ \A j \in DOMAIN states : states[j].isInitial => j <= i].id)
    ELSE RefNull

RECURSIVE AlphabetOf(_, _)
AlphabetOf(alphabet, transitions) ==
    IF transitions = <<>> THEN alphabet
    ELSE AlphabetOf(SetAddAll(alphabet, AlphabetSymbols(Head(transitions).symbols)),
                    Tail(transitions))

\* Automaton.fromJFLAPXML, with tid the value of Transition.nextId
FromJFLAPXML(doc, tid) ==
    LET sts == [i \in DOMAIN doc.states |-> StateFromXML(doc.states[i])]
        trs == [i \in DOMAIN doc.transitions |->
                  TransitionFromXML(doc.type, doc.transitions[i], sts, tid + i - 1)]
        fresh == NewAutomaton(XMLClass(doc.type))
    IN [fresh EXCEPT !.states = sts,
                     !.initialState = LastInitial(sts),
                     !.transitions = trs,
                     !.alphabet = AlphabetOf(fresh.alphabet, trs)]

-----------------------------------------------------------------------------
(* Saving and loading: an automaton is drawn in the editor, then saved with
   toJSON and loaded into a new automaton of the same class *)

MaxDrawCalls == 4

\* the coordinates a state is dragged to
Coords == {0, 50}

drawVars == <<lastOp, steps, maxSteps, scenario, simulator>>

\* editor createState, as a final state or not
DrawState ==
    /\ pc = "idle"
    /\ calls < MaxDrawCalls
    /\ Len(automaton.states) < MaxStates
    /\ \E isFinal \in BOOLEAN :
         LET opts == StateOptions(50, 50, Len(automaton.states) = 0, isFinal, FALSE) IN
         /\ automaton' = AddState(automaton, State(opts, stateNextId))
         /\ stateNextId' = StateCounterAfterNew(opts, stateNextId)
    /\ calls' = calls + 1
    /\ UNCHANGED <<transitionNextId, pc, prior, drawVars>>

\* the labels drawn: those of Labels and, for an NFA, parseLabel("a,b")
DrawLabels(type) ==
    Labels(type) \cup (IF type = "nfa" THEN {FAOptions(NoId, NoId, <<"a", "b">>)} ELSE {})

\* editor createTransition
DrawTransition ==
    /\ pc = "idle"
    /\ calls < MaxDrawCalls
    /\ Len(automaton.transitions) < MaxTransitions
    /\ \E from \in StateIds(automaton), to \in StateIds(automaton),
          label \in DrawLabels(automaton.type) :
         LET opts == [label EXCEPT !.fromState = from, !.toState = to] IN
         /\ automaton' = AddTransition(automaton, Transition(opts, transitionNextId))
         /\ transitionNextId' = TransitionCounterAfterNew(opts, transitionNextId)
    /\ calls' = calls + 1
    /\ UNCHANGED <<stateNextId, pc, prior, drawVars>>

\* editor drag: selectedState.moveTo(pos.x, pos.y)
DragState ==
    /\ pc = "idle"
    /\ calls < MaxDrawCalls
    /\ \E i \in DOMAIN automaton.states, x \in Coords, y \in Coords :
         automaton' = [automaton EXCEPT !.states[i] = MoveTo(automaton.states[i], x, y)]
    /\ calls' = calls + 1
    /\ UNCHANGED <<stateNextId, transitionNextId, pc, prior, drawVars>>

\* json = automaton.toJSON(); copy = new <class>(); copy.loadFromJSON(json):
\* from here on automaton is the copy and prior the document
SaveAndLoad ==
    /\ pc = "idle"
    /\ LET json == ToJSON(automaton) IN
         /\ prior' = json
         /\ automaton' = LoadFromJSON(NewAutomaton(automaton.type), json)
         /\ stateNextId' = StateCounterAfterLoad(json)
         /\ transitionNextId' = TransitionCounterAfterLoad(json)
    /\ pc' = "loaded"
    /\ UNCHANGED <<calls, drawVars>>

\* xml = automaton.toJFLAPXML(); this.automaton = Automaton.fromJFLAPXML(xml):
\* from here on automaton is the imported one and prior the document
\* toJSON() of the exported one
ExportAndImport ==
    /\ pc = "idle"
    /\ LET doc == ToJFLAPXML(automaton) IN
         /\ automaton' = FromJFLAPXML(doc, transitionNextId)
         /\ stateNextId' = IF Len(doc.states) > 0
                           THEN SeqMax([i \in DOMAIN doc.states |-> ParseNumber(doc.states[i].id)]) + 1
                           ELSE stateNextId
         /\ transitionNextId' = transitionNextId + Len(doc.transitions)
    /\ prior' = ToJSON(automaton)
    /\ pc' = "imported"
    /\ UNCHANGED <<calls, drawVars>>

\* loadFromJSON(json) on a record whose `missing` field (states or transitions)
\* is absent or not a list: what is assigned before json[missing].map throws
LoadFromJSONThrowing(a, json, missing) ==
    IF missing = "states"
    THEN [a EXCEPT !.type = OrElse(json.type, "dfa")]
    ELSE [a EXCEPT !.type = OrElse(json.type, "dfa"),
                   !.states = [i \in DOMAIN json.states |-> StateFromJSON(json.states[i])]]

\* automaton.loadFromJSON(json) with a malformed record made from a saved
\* one; the TypeError is caught by the caller
LoadMalformed ==
    /\ pc = "idle"
    /\ \E missing \in {"states", "transitions"}, type \in {automaton.type, Null} :
         /\ automaton' = LoadFromJSONThrowing(automaton,
                             [ToJSON(automaton) EXCEPT !.type = type], missing)
         /\ lastOp' = [name |-> "loadFromJSON", ret |-> "TypeError", note |-> missing]
    /\ stateNextId' = 0
    /\ transitionNextId' = 0
    /\ pc' = "failed"
    /\ UNCHANGED <<calls, steps, maxSteps, prior, scenario, simulator>>

InitRoundTrip ==
    /\ simulator = NewSimulator
    /\ automaton \in {NewAutomaton(type) : type \in Types}
    /\ stateNextId = 0
    /\ transitionNextId = 0
    /\ lastOp = Called("new", "none")
    /\ calls = 0
    /\ pc = "idle"
    /\ steps = 0
    /\ maxSteps = 0
    /\ prior = "none"
    /\ scenario = "roundtrip"

NextRoundTrip ==
    \/ DrawState
    \/ DrawTransition
    \/ DragState
    \/ SaveAndLoad
    \/ ExportAndImport
    \/ LoadMalformed

SpecRoundTrip == InitRoundTrip /\ [][NextRoundTrip]_vars

\* C10: the automaton loaded from toJSON(A) serializes to the same document
\* as A: it equals A in every serialized field
C10_RoundTrip ==
    pc = "loaded" => ToJSON(automaton) = prior

\* the same, for the automata none of whose states is at coordinate 0
C10_RoundTripOffOrigin ==
    (/\ pc = "loaded"
     /\ \A i \in DOMAIN prior.states : prior.states[i].x # 0 /\ prior.states[i].y # 0)
    => ToJSON(automaton) = prior


\* the fields of a toJSON document that the interchange XML is to preserve
XMLPreserved(json) ==
    [states |-> [i \in DOMAIN json.states |->
                   [id |-> json.states[i].id, name |-> json.states[i].name,
                    isInitial |-> json.states[i].isInitial,
                    isFinal |-> json.states[i].isFinal,
                    isHalt |-> json.type = "tm" /\ json.states[i].isHalt]],
     transitions |-> [i \in DOMAIN json.transitions |->
                   LET t == json.transitions[i] IN
                   [fromState |-> t.fromState, toState |-> t.toState,
                    label |-> IF json.type = "tm"
                              THEN <<t.readSymbol, t.writeSymbol, t.direction>>
                              ELSE IF json.type = "pda"
                              THEN <<t.symbols, t.stackRead, t.stackWrite>>
                              ELSE <<t.symbols>>]]]

\* C11: the automaton imported from toJFLAPXML(A) has the states (ids,
\* names), role flags, transition endpoints and labels of A
C11_XMLRoundTrip ==
    pc = "imported" =>
        XMLPreserved([ToJSON(automaton) EXCEPT !.type = prior.type]) = XMLPreserved(prior)

\* the same for the automata whose transitions have one symbol each
C11_XMLRoundTripSingleSymbols ==
    (/\ pc = "imported"
     /\ \A i \in DOMAIN prior.transitions : Len(prior.transitions[i].symbols) <= 1)
    => XMLPreserved([ToJSON(automaton) EXCEPT !.type = prior.type]) = XMLPreserved(prior)

-----------------------------------------------------------------------------
(* Simulator.testString and runBatchTests: run() to completion on a copy *)

\* the while loop of run, from the n-th test of its condition on
RECURSIVE RunLoop(_, _, _)
RECURSIVE RunNext(_, _, _)
RunLoop(a, n, max) ==
    IF RunCondition(a, n, max) THEN RunNext(RunBody(a), n, max) ELSE a

\* what follows the body of the loop, r the outcome of the body
RunNext(r, n, max) ==
    IF r.break THEN r.a ELSE RunLoop(r.a, n + 1, max)

\* Automaton.run, PDA.run, TuringMachine.run with the default maxSteps
Run(a) ==
    RunEpilogue(RunLoop([a EXCEPT !.isRunning = TRUE], 0, DefaultMaxSteps(a.type)))

\* createTestCopy on a heap with the live automaton: the heap with the copy
\* in it, and the reference that is returned
CreateTestCopyAliased(live) ==
    [heap |-> [live |-> live, copy |-> live], ref |-> "live"]

CreateTestCopy(live) ==
    [heap |-> [live |-> live,
               copy |-> LoadFromJSON(NewAutomaton(IF live.type \in Types THEN live.type ELSE "nfa"),
                                     ToJSON(live))],
     ref |-> "copy"]

\* testAutomaton.initSimulation(input); testAutomaton.run()
TestRun(c, input) ==
    [c EXCEPT !.heap[c.ref] = Run(InitSimulation(@, input))]

\* what testString returns, and the live automaton after it
TestOutcome(c, input) ==
    [live |-> c.heap.live,
     result |-> [input |-> input,
                 accepted |-> c.heap[c.ref].isAccepted,
                 trace |-> c.heap[c.ref].trace]]

\* Simulator.testString
TestString(live, input) == TestOutcome(TestRun(CreateTestCopy(live), input), input)

\* the forEach of runBatchTests keeping only the accepted results
RECURSIVE BatchLoopAcceptedOnly(_, _, _)
BatchLoopAcceptedOnly(live, inputs, results) ==
    IF inputs = <<>> THEN [live |-> live, results |-> results]
    ELSE LET t == TestString(live, Head(inputs)) IN
         BatchLoopAcceptedOnly(t.live, Tail(inputs),
             IF t.result.accepted = "true" THEN Append(results, t.result) ELSE results)

\* the forEach of runBatchTests
RECURSIVE BatchLoop(_, _, _)
RECURSIVE BatchNext(_, _, _)
BatchLoop(live, inputs, results) ==
    IF inputs = <<>> THEN [live |-> live, results |-> results]
    ELSE BatchNext(TestString(live, Head(inputs)), Tail(inputs), results)

BatchNext(t, inputs, results) == BatchLoop(t.live, inputs, Append(results, t.result))

\* Simulator.runBatchTests
RunBatchTests(live, inputs) == BatchLoop(live, inputs, <<>>)

\* Simulator.testString(w) on the finite automaton that is being edited
DoTestStringEdited ==
    /\ calls < MaxCalls
    /\ automaton.type = "nfa"
    /\ \E w \in {<<>>, <<"a">>} :
         \E t \in {TestString(automaton, w)} :
            /\ automaton' = t.live
            /\ lastOp' = Called("testString", t.result.accepted)
    /\ stateNextId' = StateCounterAfterLoad(ToJSON(automaton))
    /\ transitionNextId' = TransitionCounterAfterLoad(ToJSON(automaton))
    /\ calls' = calls + 1
    /\ UNCHANGED runVars

\* the editor session: the calls of the editor and of the test panel
NextEdit ==
    \/ DoAddState
    \/ DoRemoveState
    \/ DoAddTransition
    \/ DoRemoveTransition
    \/ DoSetInitialState
    \/ DoSetInitialStateForeign
    \/ DoClear
    \/ DoUndo
    \/ DoRedo
    \/ DoLoadFromJSON
    \/ DoTestStringEdited

SpecEdit == InitEdit /\ [][NextEdit]_vars

-----------------------------------------------------------------------------
(* A session of the simulator panel: the live automaton is simulated step  *)
(* by step while strings are tested on copies of it                        *)

MaxTests == 1
MaxLiveSteps == 2
MaxTestLen == 4

\* the strings tested; the machine that never halts is simulated live only
TestInputs(name, type) ==
    IF name = "S6" THEN {} ELSE {w \in Inputs(name, type) : Len(w) <= MaxTestLen}

\* the batches tested: none, or a string of at most one symbol and then one
\* of two symbols
Batches(name, type) ==
    {<<>>} \cup {<<v, w>> : v \in {x \in TestInputs(name, type) : Len(x) <= 1},
                           w \in {x \in TestInputs(name, type) : Len(x) = 2}}

\* the live automaton's initSimulation
LiveInitSimulation ==
    /\ pc = "idle"
    /\ \E w \in {x \in Inputs(scenario, automaton.type) : Len(x) <= MaxInputLen} :
         automaton' = InitSimulation(automaton, w)
    /\ pc' = "live"
    /\ steps' = 0
    /\ UNCHANGED <<editVars, lastOp, maxSteps, prior, scenario>>

\* one step of the live automaton
LiveStep ==
    /\ pc = "live"
    /\ steps < MaxLiveSteps
    /\ \E r \in {Step(automaton)} : automaton' = r.a
    /\ steps' = steps + 1
    /\ UNCHANGED <<editVars, lastOp, pc, maxSteps, prior, scenario>>

\* Simulator.testString(w): loadFromJSON on the copy sets the identity counters
DoTestString ==
    /\ calls < MaxTests
    /\ \E w \in TestInputs(scenario, automaton.type) :
         \E t \in {TestString(automaton, w)} :
            /\ automaton' = t.live
            /\ lastOp' = [name |-> "testString", ret |-> t.result, note |-> <<w>>]
    /\ stateNextId' = StateCounterAfterLoad(ToJSON(automaton))
    /\ transitionNextId' = TransitionCounterAfterLoad(ToJSON(automaton))
    /\ calls' = calls + 1
    /\ UNCHANGED runVars

\* Simulator.runBatchTests(inputs)
DoRunBatchTests ==
    /\ calls < MaxTests
    /\ \E inputs \in Batches(scenario, automaton.type) :
            \E b \in {RunBatchTests(automaton, inputs)} :
               /\ automaton' = b.live
               /\ lastOp' = [name |-> "runBatchTests", ret |-> b.results, note |-> inputs]
               /\ stateNextId' = IF inputs = <<>> THEN stateNextId
                                 ELSE StateCounterAfterLoad(ToJSON(automaton))
               /\ transitionNextId' = IF inputs = <<>> THEN transitionNextId
                                      ELSE TransitionCounterAfterLoad(ToJSON(automaton))
    /\ calls' = calls + 1
    /\ UNCHANGED runVars

InitTest ==
    /\ simulator = NewSimulator
    /\ \E s \in {x \in Scenarios : x.name # "generated"} :
         /\ scenario = s.name
         /\ automaton = s.machine
         /\ stateNextId = Len(s.machine.states)
         /\ transitionNextId = Len(s.machine.transitions)
    /\ lastOp = Called("new", "none")
    /\ calls = 0
    /\ pc = "idle"
    /\ steps = 0
    /\ maxSteps = 0
    /\ prior = "none"

NextTest ==
    \/ LiveInitSimulation
    \/ LiveStep
    \/ DoTestString
    \/ DoRunBatchTests

SpecTest == InitTest /\ [][NextTest]_vars

\* C12: a call of Simulator.testString leaves the live automaton as it was:
\* states, transitions, alphabet, initial state, the simulation state and the
\* history are the same after the call as before it
C12_TestStringFrame ==
    [][(lastOp'.name = "testString" /\ calls' = calls + 1) => automaton' = automaton]_vars

\* a string was tested while the live automaton was in the middle of a
\* simulation of another input
C12_Witness ==
    /\ lastOp.name = "testString"
    /\ pc = "live"
    /\ steps > 0
    /\ automaton.trace # <<>>
    /\ automaton.input # lastOp.ret.input
    /\ Len(lastOp.ret.trace) > 1
    /\ lastOp.ret.accepted = "true"

\* C13: runBatchTests returns one result per input in input order, and each
\* result is the one testString gives for that input alone
C13_BatchIndependent ==
    [][(lastOp'.name = "runBatchTests" /\ calls' = calls + 1) =>
          /\ Len(lastOp'.ret) = Len(lastOp'.note)
          /\ \A i \in DOMAIN lastOp'.note :
                lastOp'.ret[i] = TestString(automaton, lastOp'.note[i]).result]_vars

\* a batch of two different inputs with different verdicts, run after an
\* earlier test
C13_Witness ==
    /\ lastOp.name = "runBatchTests"
    /\ calls = MaxTests
    /\ Len(lastOp.ret) = 2
    /\ lastOp.ret[1].input # lastOp.ret[2].input
    /\ lastOp.ret[1].accepted = "false"
    /\ lastOp.ret[2].accepted = "true"

-----------------------------------------------------------------------------
(* The automatic run of the simulator panel: setInterval, pause, resume,   *)
(* stop, and the ticks of the intervals that are set in the window         *)

MaxIntervals == 2
MaxTicks == 3

\* Simulator.init
SimulatorInit(a, input) == InitSimulation(a, input)

\* "Initialize if not already" of Simulator.step and Simulator.run
InitIfNotAlready(sim, a) ==
    IF Len(a.trace) = 0 THEN SimulatorInit(a, sim.inputField) ELSE a

\* Simulator.stop
SimulatorStop(sim) ==
    [sim EXCEPT !.intervals = IF sim.stepInterval # NoInterval
                              THEN @ \ {sim.stepInterval} ELSE @,
                !.stepInterval = NoInterval,
                !.isRunning = FALSE,
                !.isPaused = FALSE]

\* Simulator.run: setInterval gives a new interval of the window
SimulatorRun(sim) ==
    [sim EXCEPT !.isRunning = TRUE,
                !.isPaused = FALSE,
                !.stepInterval = sim.nextInterval,
                !.intervals = @ \cup {sim.nextInterval},
                !.nextInterval = @ + 1]

\* the simulator after "Initialize if not already": init is called when the
\* trace is empty
InitCounted(sim, a) ==
    IF Len(a.trace) = 0 THEN [sim EXCEPT !.initCalls = @ + 1] ELSE sim

\* Simulator.complete: stop(), then the callback onSimulationComplete
SimulatorComplete(sim) ==
    [SimulatorStop(sim) EXCEPT !.onSimulationComplete = @ + 1]

\* Simulator.step after automaton.step() gave r: the callback onStepComplete,
\* then complete() when the step did not continue or the run is decided
SimulatorAfterStep(sim, r) ==
    LET called == [sim EXCEPT !.onStepComplete = @ + 1] IN
    IF ~r.ret \/ r.a.isAccepted # "null"
    THEN [sim |-> SimulatorComplete(called), a |-> r.a, ret |-> FALSE]
    ELSE [sim |-> called, a |-> r.a, ret |-> TRUE]

\* Simulator.step
SimulatorStep(sim, a) ==
    SimulatorAfterStep(InitCounted(sim, a), Step(InitIfNotAlready(sim, a)))

\* app.runSimulation, the Run button: init(input) and run()
DoRunSimulation ==
    /\ simulator.nextInterval <= MaxIntervals
    /\ automaton' = InitIfNotAlready(simulator, SimulatorInit(automaton, simulator.inputField))
    /\ simulator' = SimulatorRun(InitCounted([simulator EXCEPT !.initCalls = @ + 1],
                                            SimulatorInit(automaton, simulator.inputField)))
    /\ pc' = "auto"
    /\ lastOp' = Called("run", "none")
    /\ UNCHANGED <<stateNextId, transitionNextId, calls, steps, maxSteps, prior, scenario>>

\* Simulator.run on the simulation as it is
DoSimulatorRun ==
    /\ simulator.nextInterval <= MaxIntervals
    /\ automaton' = InitIfNotAlready(simulator, automaton)
    /\ simulator' = SimulatorRun(InitCounted(simulator, automaton))
    /\ pc' = "auto"
    /\ lastOp' = Called("run", "none")
    /\ UNCHANGED <<stateNextId, transitionNextId, calls, steps, maxSteps, prior, scenario>>

\* Simulator.pause
DoPause ==
    /\ simulator' = [simulator EXCEPT !.isPaused = TRUE]
    /\ lastOp' = Called("pause", "none")
    /\ UNCHANGED <<automaton, stateNextId, transitionNextId, calls, pc, steps, maxSteps, prior, scenario>>

\* Simulator.resume
DoResume ==
    /\ simulator' = [simulator EXCEPT !.isPaused = FALSE]
    /\ lastOp' = Called("resume", "none")
    /\ UNCHANGED <<automaton, stateNextId, transitionNextId, calls, pc, steps, maxSteps, prior, scenario>>

\* Simulator.stop
DoStop ==
    /\ simulator' = SimulatorStop(simulator)
    /\ pc' = "stopped"
    /\ lastOp' = Called("stop", "none")
    /\ UNCHANGED <<automaton, stateNextId, transitionNextId, calls, steps, maxSteps, prior, scenario>>

\* the callback of an interval that is set in the window; steps counts the
\* automaton steps the callbacks have made
Tick ==
    /\ steps < MaxTicks
    /\ \E t \in simulator.intervals :
         IF simulator.isPaused
         THEN UNCHANGED <<automaton, simulator, pc, steps>>
         ELSE \E s \in {SimulatorStep(simulator, automaton)} :
                 /\ automaton' = s.a
                 /\ simulator' = IF s.ret THEN s.sim ELSE SimulatorStop(s.sim)
                 /\ pc' = IF s.ret THEN pc ELSE "stopped"
                 /\ steps' = steps + 1
    /\ lastOp' = Called("tick", "none")
    /\ UNCHANGED <<stateNextId, transitionNextId, calls, maxSteps, prior, scenario>>

\* the manual steps that are followed
MaxManualSteps == 2

\* app.stepSimulation, the Step button: Simulator.step(); calls counts the
\* manual steps
DoStep ==
    /\ calls < MaxManualSteps
    /\ \E s \in {SimulatorStep(simulator, automaton)} :
         /\ automaton' = s.a
         /\ simulator' = s.sim
         /\ pc' = IF s.ret THEN pc ELSE "stopped"
         /\ lastOp' = Called("step", IF s.ret THEN "true" ELSE "false")
    /\ calls' = calls + 1
    /\ UNCHANGED <<stateNextId, transitionNextId, steps, maxSteps, prior, scenario>>

InitAuto ==
    /\ \E s \in {x \in Scenarios : x.name # "generated"} :
         /\ scenario = s.name
         /\ automaton = s.machine
         /\ stateNextId = Len(s.machine.states)
         /\ transitionNextId = Len(s.machine.transitions)
         /\ \E w \in {x \in Inputs(s.name, s.machine.type) : Len(x) <= MaxInputLen} :
              simulator = [NewSimulator EXCEPT !.inputField = w]
    /\ lastOp = Called("new", "none")
    /\ calls = 0
    /\ pc = "idle"
    /\ steps = 0
    /\ maxSteps = 0
    /\ prior = "none"

NextAuto ==
    \/ DoRunSimulation
    \/ DoSimulatorRun
    \/ DoPause
    \/ DoResume
    \/ DoStop
    \/ Tick
    \/ DoStep

SpecAuto == InitAuto /\ [][NextAuto]_vars

\* C14: after Simulator.stop() has returned, and until run() is called again,
\* no tick of a timer performs a step of the automaton
C14_NoStepAfterStop ==
    [][pc = "stopped" => steps' = steps]_vars

\* C15: loadFromJSON on a malformed record fails and leaves the automaton as
\* it was: the type, the states, the transitions, the alphabet, the initial
\* state and the identity counters are the same as before the call
C15_FailedLoadKeepsAll ==
    [][pc' = "failed" =>
          /\ automaton'.type = automaton.type
          /\ automaton'.states = automaton.states
          /\ automaton'.transitions = automaton.transitions
          /\ automaton'.alphabet = automaton.alphabet
          /\ automaton'.initialState = automaton.initialState
          /\ stateNextId' = stateNextId
          /\ transitionNextId' = transitionNextId]_vars


\* C16: removeState called with an id that no state has is a no-op: the
\* states, the transitions, the initial state, the history and the history
\* index are unchanged
C16_RemoveUnknownIsNoOp ==
    [][(/\ calls' = calls + 1
        /\ lastOp'.name = "removeState"
        /\ automaton' = RemoveState(automaton, UnknownId))
       => /\ automaton'.states = automaton.states
          /\ automaton'.transitions = automaton.transitions
          /\ automaton'.initialState = automaton.initialState
          /\ automaton'.history = automaton.history
          /\ automaton'.historyIndex = automaton.historyIndex]_vars


DistinctIds(objects) ==
    \A i \in DOMAIN objects, j \in DOMAIN objects : i # j => objects[i].id # objects[j].id

CounterIsMaxPlusOne(counter, objects) ==
    Len(objects) > 0 => counter = SeqMax([i \in DOMAIN objects |-> objects[i].id]) + 1

AfterALoad ==
    \/ lastOp.name = "loadFromJSON"
    \/ lastOp.name \in {"undo", "redo"} /\ lastOp.ret = "true"

C18_AlphabetExact ==
    Range(automaton.alphabet) =
        UNION {Range(AlphabetSymbols(automaton.transitions[i].symbols)) :
                  i \in DOMAIN automaton.transitions}


-----------------------------------------------------------------------------
(* Turing machines stepping over both ends of the tape                     *)

MaxTapeSteps == 12

\* writes over what it reads and moves left for ever
Lefty == Machine("tm", <<Plain>>,
                 <<TMOptions(0, 0, BLANK, "1", "L"), TMOptions(0, 0, "0", "1", "L"),
                   TMOptions(0, 0, "1", "0", "L")>>)

\* writes over what it reads and moves right for ever
Righty == Machine("tm", <<Plain>>,
                  <<TMOptions(0, 0, BLANK, "1", "R"), TMOptions(0, 0, "0", "1", "R"),
                    TMOptions(0, 0, "1", "0", "R")>>)

\* over 0 writes the empty symbol, over 1 writes _, and moves right
Eraser == Machine("tm", <<Plain>>,
                  <<TMOptions(0, 0, "0", "", "R"), TMOptions(0, 0, "1", "_", "R")>>)

\* from q0: on 0 to q1, which is halt and not final; on 1 to q2, which is
\* final and not halt; nothing on the blank
Halter == Machine("tm", <<Plain, StateOptions(50, 50, FALSE, FALSE, TRUE), Final>>,
                  <<TMOptions(0, 1, "0", "0", "R"), TMOptions(0, 2, "1", "1", "R")>>)

\* tm.initSimulation(w)
TapeInit ==
    /\ pc = "idle"
    /\ \E w \in Strings({"0", "1"}, MaxInputLen) : automaton' = InitSimulation(automaton, w)
    /\ pc' = "tape"
    /\ UNCHANGED <<editVars, lastOp, steps, maxSteps, prior, scenario>>

\* tm.step()
TapeStep ==
    /\ pc = "tape"
    /\ steps < MaxTapeSteps
    /\ \E r \in {Step(automaton)} : automaton' = r.a
    /\ steps' = steps + 1
    /\ UNCHANGED <<editVars, lastOp, pc, maxSteps, prior, scenario>>

\* the iterations of a loop of setTapeCell that are followed
MaxUnshift == 4

\* the logical positions setTapeCell is called with: on the tape, and one and
\* two cells beyond either end of it
CellPositions(a) == (a.visibleTapeStart - 2)..(a.visibleTapeStart + Len(a.tape) + 1)

\* tm.setTapeCell(position, symbol) up to the first test of its first loop;
\* index is the constant the call computes on entry
SetTapeCellCall ==
    /\ pc = "tape"
    /\ \E position \in {automaton.visibleTapeStart - 2, automaton.visibleTapeStart - 1,
                          automaton.visibleTapeStart,
                          automaton.headPosition + automaton.visibleTapeStart,
                          automaton.visibleTapeStart + Len(automaton.tape) - 1,
                          automaton.visibleTapeStart + Len(automaton.tape) + 1},
          symbol \in {"0", "1"} :
         lastOp' = [name |-> "setTapeCell", ret |-> "none",
                    note |-> [position |-> position, symbol |-> symbol,
                              index |-> position - automaton.visibleTapeStart,
                              before |-> automaton]]
    /\ pc' = "left"
    /\ steps' = 0
    /\ UNCHANGED <<automaton, editVars, maxSteps, prior, scenario>>

\* one pass through while (index < 0) of setTapeCell
SetTapeCellUnshift ==
    /\ pc = "left"
    /\ lastOp.note.index < 0
    /\ steps < MaxUnshift
    /\ automaton' = [automaton EXCEPT !.tape = <<automaton.blankSymbol>> \o @,
                                      !.visibleTapeStart = @ - 1,
                                      !.headPosition = @ + 1]
    /\ steps' = steps + 1
    /\ UNCHANGED <<editVars, lastOp, pc, maxSteps, prior, scenario>>

\* setTapeCell from the end of its first loop: while (index >= tape.length),
\* the store and the return
SetTapeCellStore ==
    /\ pc = "left"
    /\ ~(lastOp.note.index < 0)
    /\ LET index == lastOp.note.index
           pushes == Max(0, index - Len(automaton.tape) + 1)
           extended == automaton.tape \o Blanks(pushes, automaton.blankSymbol)
       IN automaton' = [automaton EXCEPT
                          !.tape = [extended EXCEPT ![index + 1] = lastOp.note.symbol],
                          !.visibleTapeEnd = @ + pushes,
                          !.tapeAlphabet = SetAdd(@, lastOp.note.symbol)]
    /\ lastOp' = [lastOp EXCEPT !.ret = "returned"]
    /\ pc' = "stored"
    /\ UNCHANGED <<editVars, steps, maxSteps, prior, scenario>>

InitTape ==
    /\ simulator = NewSimulator
    /\ \E s \in {[name |-> "lefty", machine |-> Lefty], [name |-> "righty", machine |-> Righty],
                  [name |-> "S5", machine |-> S5], [name |-> "S6", machine |-> S6],
                  [name |-> "eraser", machine |-> Eraser],
                  [name |-> "halter", machine |-> Halter]} :
         /\ scenario = s.name
         /\ automaton = s.machine
         /\ stateNextId = Len(s.machine.states)
         /\ transitionNextId = Len(s.machine.transitions)
    /\ lastOp = Called("new", "none")
    /\ calls = 0
    /\ pc = "idle"
    /\ steps = 0
    /\ maxSteps = 0
    /\ prior = "none"

NextTape ==
    \/ TapeInit
    \/ TapeStep
    \/ SetTapeCellCall
    \/ SetTapeCellUnshift
    \/ SetTapeCellStore

SpecTape == InitTape /\ [][NextTape]_vars

\* the logical coordinates of the cells of the tape, and one beyond each end
Coordinates(a) == (a.visibleTapeStart - 1)..(a.visibleTapeStart + Len(a.tape))

\* C20: during a run of a Turing machine the symbol at a logical coordinate
\* of the tape changes only when the head writes at that coordinate; a step
\* that extends the tape to the left or to the right keeps every cell at its
\* logical coordinate with its symbol
C20_TapeStable ==
    [][(pc = "tape" /\ steps' = steps + 1) =>
          \A p \in Coordinates(automaton) \cup Coordinates(automaton') :
             GetTapeCell(automaton', p) # GetTapeCell(automaton, p)
                => p = automaton.headPosition + automaton.visibleTapeStart]_vars

\* the head has left the tape on the left and the tape was extended, with
\* cells on it that were written
C20_Witness ==
    /\ pc = "tape"
    /\ automaton.visibleTapeStart < 0 - 10
    /\ \E i \in DOMAIN automaton.tape : automaton.tape[i] # automaton.blankSymbol
-----------------------------------------------------------------------------
(* Pushdown automata with either acceptance flag on or off, run step by step *)

\* from q0: on a, popping Z, to the final q1; without reading, to q2, which
\* pops Z on a
Early == Machine("pda", <<Plain, Final, Plain>>,
                 <<PDAOptions(0, 1, "a", "Z", EPS), PDAOptions(0, 2, EPS, EPS, EPS),
                   PDAOptions(2, 2, "a", "Z", EPS)>>)

\* pda.initSimulation(w); pda.run() up to the first test of the loop
PDAStart ==
    /\ pc = "idle"
    /\ \E w \in Strings({"a", "b"}, MaxInputLen) :
         automaton' = [InitSimulation(automaton, w) EXCEPT !.isRunning = TRUE]
    /\ steps' = 0
    /\ maxSteps' = DefaultMaxSteps(automaton.type)
    /\ pc' = "run"
    /\ UNCHANGED <<editVars, lastOp, prior, scenario>>

\* pda.checkAcceptance() on the configurations as they are
PDACheck ==
    /\ pc \in {"run", "exit"}
    /\ automaton' = CheckAcceptance(automaton)
    /\ lastOp' = Called("checkAcceptance", automaton'.isAccepted)
    /\ pc' = "checked"
    /\ UNCHANGED <<editVars, steps, maxSteps, prior, scenario>>

InitPDA ==
    /\ simulator = NewSimulator
    /\ \E s \in {[name |-> "S4", machine |-> S4], [name |-> "pusher", machine |-> Pusher],
                  [name |-> "early", machine |-> Early]},
          byState \in BOOLEAN, byStack \in BOOLEAN :
         /\ scenario = s.name
         /\ automaton = [s.machine EXCEPT !.acceptByFinalState = byState,
                                          !.acceptByEmptyStack = byStack]
         /\ stateNextId = Len(s.machine.states)
         /\ transitionNextId = Len(s.machine.transitions)
    /\ lastOp = Called("new", "none")
    /\ calls = 0
    /\ pc = "idle"
    /\ steps = 0
    /\ maxSteps = 0
    /\ prior = "none"

NextPDA ==
    \/ PDAStart
    \/ RunIteration
    \/ RunReturn
    \/ PDACheck

SpecPDA == InitPDA /\ [][NextPDA]_vars

\* a step of the run of a PDA
PDAStepTaken == automaton.type = "pda" /\ pc = "run" /\ steps' = steps + 1

\* the configurations that have consumed all the input
Finished(a) == {c \in Range(a.configurations) : c.inputIndex = Len(a.input)}

\* C21: in every PDA step each configuration of the new active set has the
\* inputIndex of a parent configuration (an epsilon move along a transition
\* of the parent's state) or that index plus one (a symbol move), and never
\* more than the length of the input
C21_ConsumptionStepwise ==
    [][PDAStepTaken =>
          \A d \in Range(automaton'.configurations) :
             /\ d.inputIndex <= Len(automaton.input)
             /\ \E c \in Range(automaton.configurations) :
                   \E t \in Range(GetTransitionsFrom(automaton, c.state)) :
                      /\ GetToStateId(t) = d.state
                      /\ IF IsEpsilon(t) THEN d.inputIndex = c.inputIndex
                         ELSE d.inputIndex = c.inputIndex + 1]_vars

\* after a step the active set has both a configuration made by an epsilon
\* move and one made by a symbol move
C21_Witness ==
    /\ automaton.type = "pda"
    /\ pc = "run"
    /\ steps > 0
    /\ \E c \in Range(automaton.configurations), d \in Range(automaton.configurations) :
          c.inputIndex = 0 /\ d.inputIndex = 1

\* C24: in a run of a PDA with acceptByFinalState on, as soon as the active
\* set after a step has a configuration that consumed all the input in a
\* final state, the run is decided accepted and leaves its loop, even when
\* other configurations have input left
C24_AcceptedAsSoonAsFinal ==
    [][(/\ PDAStepTaken
        /\ automaton.acceptByFinalState
        /\ \E c \in Finished(automaton') : GetState(automaton', c.state).isFinal)
       => automaton'.isAccepted = "true" /\ pc' = "exit"]_vars

\* C25: checkAcceptance looks only at the configurations that consumed all
\* the input, and the verdict is true iff acceptByFinalState is on and one
\* of them is in a final state, or acceptByEmptyStack is on and one of them
\* has an empty stack; with both flags off the verdict is false
C25_CheckAcceptance ==
    lastOp.name = "checkAcceptance" =>
        /\ lastOp.ret \in {"true", "false"}
        /\ lastOp.ret = "true" <=>
              \/ /\ automaton.acceptByFinalState
                 /\ \E c \in Finished(automaton) : GetState(automaton, c.state).isFinal
              \/ /\ automaton.acceptByEmptyStack
                 /\ \E c \in Finished(automaton) : c.stack = <<>>

\* accepted by an empty stack alone: no finished configuration is in a final
\* state, and one with input left is
C25_Witness ==
    /\ lastOp.name = "checkAcceptance"
    /\ lastOp.ret = "true"
    /\ automaton.acceptByFinalState
    /\ automaton.acceptByEmptyStack
    /\ \A c \in Finished(automaton) : ~GetState(automaton, c.state).isFinal

Flip(c) == IF c = "0" THEN "1" ELSE "0"

C23_S6Terminates ==
    scenario = "S6" =>
        /\ steps <= maxSteps
        /\ pc = "done" => automaton.isAccepted = "false" /\ lastOp.ret = "false"

\* run(LongBudget) of S6 has returned after LongBudget steps, with more than
\* the 100 trace entries the loop guard waits for
C23_Witness ==
    /\ scenario = "S6"
    /\ pc = "done"
    /\ steps = LongBudget
    /\ Len(automaton.trace) > 100

-----------------------------------------------------------------------------
(* What a step of a Turing machine writes                                   *)

\* the transition taken by the step that led to a
Taken(a) == {t \in Range(a.transitions) : t.highlighted}

\* C30: a step of a Turing machine that takes a transition replaces the
\* cell under the head by the write-symbol of that transition, and by the
\* blank symbol of the machine when that write-symbol is one of the blank
\* notations or empty; a transition with an empty write-symbol taken over a
\* cell that is not blank leaves the cell blank
C30_WriteNormalised ==
    [][(pc = "tape" /\ steps' = steps + 1 /\ automaton'.inputIndex = automaton.inputIndex + 1) =>
          \A t \in Taken(automaton') :
             GetTapeCell(automaton', automaton.headPosition + automaton.visibleTapeStart)
               = IF Falsy(t.writeSymbol) \/ IsBlankNotation(t.writeSymbol)
                 THEN automaton.blankSymbol
                 ELSE t.writeSymbol]_vars

-----------------------------------------------------------------------------
(* The cursor of an NFA over a step                                         *)

\* a step of an NFA that reads a symbol: input is left and some state is active
NFAConsumes(a) == a.type = "nfa" /\ a.inputIndex < Len(a.input) /\ a.currentStates # {}

\* C26: in a step of an NFA that consumes a symbol, when the new active set
\* is empty the run is rejected and inputIndex keeps the value it had before
\* the step; inputIndex advances by one only when the new active set is not
\* empty
C26_StuckKeepsCursor ==
    [][(pc = "live" /\ steps' = steps + 1 /\ NFAConsumes(automaton)) =>
          IF automaton'.currentStates = {}
          THEN /\ automaton'.isAccepted = "false"
               /\ automaton'.inputIndex = automaton.inputIndex
          ELSE automaton'.inputIndex = automaton.inputIndex + 1]_vars

-----------------------------------------------------------------------------
(* NFAs stepped by hand and reset                                           *)

\* nfa.initSimulation(w)
NFAStart ==
    /\ pc \in {"idle", "reset"}
    /\ \E w \in {x \in Inputs(scenario, automaton.type) : Len(x) <= MaxInputLen} :
         automaton' = InitSimulation(automaton, w)
    /\ pc' = "live"
    /\ steps' = 0
    /\ UNCHANGED <<editVars, lastOp, maxSteps, prior, scenario>>

\* nfa.step()
NFAStepOnce ==
    /\ pc \in {"live", "reset"}
    /\ steps < MaxInputLen + 1
    /\ \E r \in {Step(automaton)} :
         /\ automaton' = r.a
         /\ lastOp' = Called("step", IF r.ret THEN "true" ELSE "false")
    /\ steps' = steps + 1
    /\ UNCHANGED <<editVars, pc, maxSteps, prior, scenario>>

\* nfa.resetSimulation()
NFAReset ==
    /\ pc = "live"
    /\ automaton' = ResetSimulation(automaton)
    /\ lastOp' = Called("resetSimulation", "none")
    /\ pc' = "reset"
    /\ steps' = 0
    /\ UNCHANGED <<editVars, maxSteps, prior, scenario>>

InitNFA ==
    /\ simulator = NewSimulator
    /\ \E s \in {x \in Scenarios : x.machine.type = "nfa"} :
         /\ scenario = s.name
         /\ automaton = s.machine
         /\ stateNextId = Len(s.machine.states)
         /\ transitionNextId = Len(s.machine.transitions)
    /\ lastOp = Called("new", "none")
    /\ calls = 0
    /\ pc = "idle"
    /\ steps = 0
    /\ maxSteps = 0
    /\ prior = "none"

NextNFA ==
    \/ NFAStart
    \/ NFAStepOnce
    \/ NFAReset

SpecNFA == InitNFA /\ [][NextNFA]_vars

\* the targets of the epsilon-transitions that leave a set of states
EpsilonTargets(a, ids) ==
    {GetToStateId(t) : t \in {u \in Range(a.transitions) :
                                /\ GetFromStateId(u) \in ids
                                /\ (Includes(u.symbols, EPS) \/ Includes(u.symbols, ""))
                                /\ HasState(a, GetToStateId(u))}}

\* C27: in every state of an NFA reached through initSimulation, step and
\* resetSimulation the active set is closed under epsilon-transitions: with
\* an active state q and an epsilon-transition from q to r, r is active
C27_ActiveSetClosed ==
    automaton.type = "nfa" =>
       EpsilonTargets(automaton, automaton.currentStates) \subseteq automaton.currentStates

-----------------------------------------------------------------------------
(* The contract of the automaton toDFA returns                              *)

\* the subset of states of the NFA reached from subset S on symbol c
SubsetAfter(nfa, S, c) == EpsilonReachable(nfa, SymbolSuccessors(nfa, S, c))

\* the transitions of the DFA from state d that carry symbol c
DFAMoves(dfa, d, c) ==
    {t \in Range(dfa.transitions) : GetFromStateId(t) = d /\ Includes(t.symbols, c)}

\* the pairs of a subset of states of the NFA and the state of the DFA that
\* stands for it, reachable from the pairs R along the transitions of the DFA
RECURSIVE SubsetPairs(_, _, _)
SubsetPairs(nfa, dfa, R) ==
    LET more == UNION {UNION {{[subset |-> SubsetAfter(nfa, p.subset, c),
                                state |-> GetToStateId(t)] : t \in DFAMoves(dfa, p.state, c)}
                              : c \in Range(nfa.alphabet) \ {EPS}}
                       : p \in R}
    IN IF more \subseteq R THEN R ELSE SubsetPairs(nfa, dfa, R \cup more)

\* the pairs reachable from the epsilon closure of the initial state of the
\* NFA and the initial state of the DFA
ReachablePairs(nfa, dfa) ==
    SubsetPairs(nfa, dfa, {[subset |-> EpsilonReachable(nfa, {nfa.initialState.id}),
                            state |-> dfa.initialState.id]})

\* every reachable subset that has a successor on a symbol has a transition
\* of the DFA on that symbol
SubsetsMapped(nfa, dfa) ==
    \A p \in ReachablePairs(nfa, dfa) : \A c \in Range(nfa.alphabet) \ {EPS} :
       SubsetAfter(nfa, p.subset, c) # {} => DFAMoves(dfa, p.state, c) # {}

InitialStatesOf(a) == {i \in DOMAIN a.states : a.states[i].isInitial}

\* C28: the automaton toDFA returns for an NFA built by addState and
\* addTransition has no epsilon-transition, no state with two transitions
\* that accept the same symbol and exactly one initial state, and two
\* reachable subsets of states of the NFA are given the same state of the DFA
\* if and only if they hold the same states of the NFA
C28_ToDFAContract ==
    [][(automaton.type = "nfa" /\ automaton'.type = "dfa") =>
          /\ Deterministic(automaton')
          /\ Cardinality(InitialStatesOf(automaton')) = 1
          /\ Truthy(automaton'.initialState)
          /\ SubsetsMapped(automaton, automaton')
          /\ \A p, q \in ReachablePairs(automaton, automaton') :
                p.state = q.state <=> p.subset = q.subset]_vars

\* toDFA has returned a DFA of two states or more, one of them standing for
\* both states of the NFA, and the DFA is being run
C28_Witness ==
    /\ automaton.type = "dfa"
    /\ prior # "none"
    /\ Len(automaton.states) >= 2
    /\ \E i \in DOMAIN automaton.states : automaton.states[i].name = "{q0,q1}"

-----------------------------------------------------------------------------
(* How a stopped Turing machine is decided                                  *)

\* the state a Turing machine is in
TMCurrentState(a) == GetState(a, CHOOSE id \in a.currentStates : TRUE)

\* the last step found no transition for the symbol under the head
TMStuck(a) == Len(a.trace) > 0 /\ a.trace[Len(a.trace)].kind = "halt"

\* the machine has stopped: it entered a final or a halt state, or it is stuck
TMStopped(a) ==
    \/ Len(a.trace) > 1 /\ (TMCurrentState(a).isFinal \/ TMCurrentState(a).isHalt)
    \/ TMStuck(a)

\* C29: a Turing machine that stopped because it entered a final or a halt
\* state, or because no transition from its state matches the symbol under
\* the head, is accepted if and only if the state it stopped in is final; in
\* a state that is halt and not final, and stuck in a state that is not
\* final, it is rejected
C29_AcceptedIffFinal ==
    (pc = "tape" /\ automaton.currentStates # {} /\ TMStopped(automaton)) =>
       /\ automaton.isAccepted # "null"
       /\ automaton.isAccepted = "true" <=> TMCurrentState(automaton).isFinal
       /\ TMStuck(automaton) => automaton.isAccepted = "false"

\* the machine has stopped in a state that is halt and not final and is rejected
C29_Witness ==
    /\ pc = "tape"
    /\ automaton.currentStates # {}
    /\ Len(automaton.trace) > 1
    /\ TMCurrentState(automaton).isHalt
    /\ ~TMCurrentState(automaton).isFinal
    /\ automaton.isAccepted = "false"

-----------------------------------------------------------------------------
(* The loop guard of the run of a Turing machine                            *)

\* the last entry of the trace is the entry of the loop guard
GuardStopped(a) == Len(a.trace) > 0 /\ a.trace[Len(a.trace)].kind = "loop"

\* the entries among the last n of a trace that agree with its last entry in
\* state, logical head position and tape
Repeats(trace, n) ==
    {i \in Max(1, Len(trace) - n + 1)..Len(trace) :
        /\ trace[i].states = trace[Len(trace)].states
        /\ trace[i].headPosition = trace[Len(trace)].headPosition
        /\ trace[i].tape = trace[Len(trace)].tape}

\* the trace before its last entry
Front(trace) == SubSeq(trace, 1, Len(trace) - 1)

\* C31: the loop guard of the run of a Turing machine stops the run only when
\* the trace has more than 100 entries and more than two of its 50 most
\* recent entries agree with the latest in state, logical head position and
\* tape; it then appends an entry for the loop to the trace and the run is
\* rejected; the machine that stays in place for ever is stopped by the guard
\* before the budget of 10000 steps is used up
C31_LoopGuard ==
    [][/\ (automaton'.type = "tm" /\ GuardStopped(automaton') /\ ~GuardStopped(automaton)) =>
            /\ Len(Front(automaton'.trace)) > 100
            /\ Cardinality(Repeats(Front(automaton'.trace), 50)) > 2
            /\ pc' = "exit"
       /\ (automaton'.type = "tm" /\ GuardStopped(automaton') /\ pc' = "done") =>
            /\ automaton'.isAccepted = "false"
            /\ lastOp'.ret = "false"
       /\ (scenario' = "stayer" /\ maxSteps' = DefaultMaxSteps("tm")) =>
            /\ steps' < maxSteps'
            /\ pc' = "done" => GuardStopped(automaton')]_vars

\* run() of the machine that stays in place has been stopped by the guard
\* and has returned
C31_Witness ==
    /\ scenario = "stayer"
    /\ maxSteps = DefaultMaxSteps("tm")
    /\ pc = "done"
    /\ GuardStopped(automaton)
    /\ steps = 100

-----------------------------------------------------------------------------
(* setTapeCell at positions on and beyond the tape                          *)

\* C32: setTapeCell(p, s) returns for every logical position p, to the left
\* of the tape and to the right of it as well: the tape is extended to the
\* left no further than to p, and after the call getTapeCell(p) = s, every
\* other logical position reads the symbol it read before the call and the
\* head is at the logical position it was at
C32_SetTapeCell ==
    lastOp.name = "setTapeCell" =>
       LET position == lastOp.note.position
           before == lastOp.note.before
       IN /\ automaton.visibleTapeStart >= position \/
             automaton.visibleTapeStart = before.visibleTapeStart
          /\ pc = "stored" =>
               /\ GetTapeCell(automaton, position) = lastOp.note.symbol
               /\ \A q \in (CellPositions(before) \cup CellPositions(automaton)) \ {position} :
                     GetTapeCell(automaton, q) = GetTapeCell(before, q)
               /\ automaton.headPosition + automaton.visibleTapeStart
                    = before.headPosition + before.visibleTapeStart

-----------------------------------------------------------------------------
(* The head of a Turing machine                                             *)

\* the logical position of the head
LogicalHead(a) == a.headPosition + a.visibleTapeStart

\* what a move in a direction adds to the logical position of the head
HeadDelta(direction) ==
    CASE direction = "L" -> 0 - 1
      [] direction = "R" -> 1
      [] OTHER -> 0

\* C33: in every state of a Turing machine reached through initSimulation
\* and step the head is at an index of the tape (0 <= headPosition <
\* tape.length), and a step changes the logical position of the head
\* (headPosition + visibleTapeStart) by -1 for L, by +1 for R and by 0 for S,
\* also when the move extends the tape
C33_HeadOnTape ==
    [][pc' = "tape" =>
         /\ automaton'.headPosition >= 0
         /\ automaton'.headPosition < Len(automaton'.tape)
         /\ (pc = "tape" /\ automaton'.inputIndex = automaton.inputIndex + 1) =>
               \A t \in Taken(automaton') :
                  LogicalHead(automaton')
                    = LogicalHead(automaton) + HeadDelta(OrElse(t.direction, "R"))]_vars

\* the head is on the cell the last step added at the right end of the tape
C33_Witness ==
    /\ pc = "tape"
    /\ automaton.visibleTapeEnd > Max(10, Len(automaton.input) + 10)
    /\ automaton.headPosition = Len(automaton.tape) - 1
    /\ Len(automaton.trace) > 1

-----------------------------------------------------------------------------
(* Undo and redo                                                            *)

\* what undo and redo restore: the states, the transitions, the alphabet and
\* the initial state
ModelOf(a) ==
    [states |-> a.states, transitions |-> a.transitions,
     alphabet |-> Range(a.alphabet), initialState |-> a.initialState]

\* C34: after any mutating operation (addState, removeState, addTransition,
\* removeTransition, setInitialState, clear), the very first one on a new
\* automaton included, undo() returns true and restores the states, the
\* transitions, the alphabet and the initial state to what they were just
\* before that operation
C34_UndoRestores ==
    [][lastOp'.name \in Mutators =>
          /\ CanUndo(automaton')
          /\ ModelOf(Undo(automaton')) = ModelOf(automaton)]_vars


\* C35: whenever undo() returns true, a redo() that follows at once returns
\* true and restores exactly the states, transitions, alphabet and initial
\* state that were current before the undo; and after a mutating operation
\* that follows an undo, redo() returns false and changes nothing
C35_RedoRestores ==
    [][/\ (lastOp'.name = "undo" /\ lastOp'.ret = "true") =>
            /\ CanRedo(automaton')
            /\ ModelOf(Redo(automaton')) = ModelOf(automaton)
       /\ (lastOp.name = "undo" /\ lastOp.ret = "true" /\ lastOp'.name \in Mutators) =>
            /\ ~CanRedo(automaton')
            /\ Redo(automaton') = automaton']_vars

-----------------------------------------------------------------------------
(* The initial state and the flags of the states                            *)

\* the ids of the states whose flag isInitial is set
FlaggedInitial(a) == {a.states[i].id : i \in {j \in DOMAIN a.states : a.states[j].isInitial}}

\* C36: after any sequence of addState, removeState, setInitialState (with a
\* state object or an id, known or unknown), clear, undo and redo,
\* initialState is not null if and only if some state has isInitial = true,
\* and then initialState is that state and is one of the states
C36_InitialAgreesWithFlags ==
    /\ Truthy(automaton.initialState) <=> FlaggedInitial(automaton) # {}
    /\ Truthy(automaton.initialState) =>
          /\ automaton.initialState.kind = "state"
          /\ HasState(automaton, automaton.initialState.id)
          /\ FlaggedInitial(automaton) = {automaton.initialState.id}

-----------------------------------------------------------------------------
(* The snapshot the renderer reads: active states, highlighted transitions  *)

ActiveStates(a) == {a.states[i].id : i \in {j \in DOMAIN a.states : a.states[j].active}}

HighlightedTransitions(a) ==
    {a.transitions[i].id : i \in {j \in DOMAIN a.transitions : a.transitions[j].highlighted}}

\* the ids of the first of a sequence of transitions, if there is one
FirstId(ts) == IF ts = <<>> THEN {} ELSE {ts[1].id}

\* the transitions a step from a takes
TakenBy(a) ==
    CASE a.type = "tm" ->
           IF a.currentStates = {} THEN {}
           ELSE LET q == CHOOSE id \in a.currentStates : TRUE IN
                IF GetState(a, q).isHalt \/ GetState(a, q).isFinal THEN {}
                ELSE FirstId(SelectSeq(GetTransitionsFrom(a, q),
                                       LAMBDA t : /\ TMMatches(a, t, CurrentCell(a))
                                                  /\ HasState(a, GetToStateId(t))))
      [] a.type = "pda" ->
           UNION {UNION {{m.via : m \in Range(MovesOf(a, a.configurations[i], t))}
                         : t \in Range(GetTransitionsFrom(a, a.configurations[i].state))}
                  : i \in DOMAIN a.configurations}
      [] a.type = "nfa" ->
           IF a.inputIndex >= Len(a.input) THEN {}
           ELSE {t.id : t \in Range(SymbolMoves(a, a.currentStates, CharAt(a.input, a.inputIndex)))}
      [] OTHER ->
           IF a.inputIndex >= Len(a.input) \/ a.currentStates = {} THEN {}
           ELSE FirstId(SelectSeq(GetTransitionsFrom(a, CHOOSE id \in a.currentStates : TRUE),
                                  LAMBDA t : TransitionAccepts(t, CharAt(a.input, a.inputIndex))))

\* C37: after initSimulation and after every step of a DFA, an NFA, a PDA or
\* a Turing machine, the states whose flag active is set are the current
\* states, and the highlighted transitions are the transitions taken in that
\* step: none after initSimulation and after a step that takes none
C37_SnapshotAgrees ==
    [][pc' = "tape" =>
         /\ ActiveStates(automaton') = automaton'.currentStates
         /\ HighlightedTransitions(automaton')
              = IF pc = "tape" THEN TakenBy(automaton) ELSE {}]_vars

-----------------------------------------------------------------------------
(* The callbacks of the Simulator                                           *)

\* a call of Simulator.step: the Step button, or a tick that is not paused
StepCalled == lastOp'.name = "step" \/ (lastOp'.name = "tick" /\ ~simulator.isPaused)

\* C38: onStepComplete fires exactly once in every call of Simulator.step,
\* and onSimulationComplete fires exactly once in a simulation (one init,
\* then steps by hand or by the timer until the run ends): steps and ticks
\* after the end do not fire it again
C38_CallbacksOnce ==
    [][/\ StepCalled => simulator'.onStepComplete = simulator.onStepComplete + 1
       /\ ~StepCalled => simulator'.onStepComplete = simulator.onStepComplete
       /\ simulator'.onSimulationComplete <= simulator'.initCalls
       /\ (StepCalled /\ automaton'.isAccepted # "null") =>
             simulator'.onSimulationComplete >= 1]_vars

-----------------------------------------------------------------------------
(* The trace of a run that its budget ends                                  *)

\* run returns from the test of its loop with nothing but the budget
\* stopping it
BudgetReturn ==
    /\ pc = "run"
    /\ pc' = "done"
    /\ lastOp'.name = "run"
    /\ lastOp'.note = "budget"

\* C39: a run that ends because its step budget is used up leaves a trace
\* whose last entry records that: an entry of its own, put after the entry
\* of the last step
C39_BudgetEntry ==
    [][BudgetReturn =>
         /\ Len(automaton'.trace) = Len(automaton.trace) + 1
         /\ automaton'.trace[Len(automaton'.trace)].kind
              \notin {"start", "read", "rejected", "stuck", "moves", "move",
                       "halt", "loop"}]_vars

====
